---- MODULE Spec2Model ----
(***************************************************************************)
(* Slot allocation and booking commit of the appointment scheduler         *)
(* (backend/scheduler.py) together with the ledger operations that other   *)
(* modules apply to the same appointments table.                           *)
(*                                                                         *)
(* Time is counted in minutes.  An ISO-8601 timestamp string is the record *)
(* [wall, zone]: the wall-clock minute count since 00:00 of day 0 and the  *)
(* zone designator it carries ("naive" when it carries none).  The instant *)
(* a zone-aware timestamp denotes is wall - Off(zone).                     *)
(***************************************************************************)
EXTENDS Integers, Sequences, FiniteSets, TLC

\* ------------------------------------------------------------------ bounds
\* number of book_slot calls made in one behaviour; the appointment identifiers
\* uuid4().hex[:8] produces are 1..MaxCalls
MaxCalls == 2

\* number of records an outside channel adds to the calendar sheet in one behaviour
MaxEvents == 1
\* hours before day 0 at which the modelled datetime range begins
MaxBack == 2

\* ------------------------------------------------------- program constants
\* DEFAULT_TZ = "Asia/Kolkata": UTC+05:30, in minutes
DefaultOff == 330

MinutesPerDay == 24 * 60

None == "None"
NoRow == [absent |-> TRUE]

Procs == {"p1", "p2"}
Doctors == {"Dr Asha Rao", "Dr Meera Iyer"}
ApptIds == 1..MaxCalls
ActiveStatuses == {"tentative", "confirmed"}

\* ------------------------------------------------------------- timestamps
Ts(w, z) == [wall |-> w, zone |-> z]

Off(zone) == IF zone = "utc" THEN 0 ELSE DefaultOff

\* a zone-less value taken as UTC
AttachUtc(dt) == IF dt.zone = "naive" THEN Ts(dt.wall, "utc") ELSE dt

\* dt.replace(tzinfo=ZoneInfo(DEFAULT_TZ)) when dt.tzinfo is None
AttachDefaultTz(dt) == IF dt.zone = "naive" THEN Ts(dt.wall, "ist") ELSE dt

\* the instant (minutes, UTC) an aware datetime denotes; Python compares
\* aware datetimes by it
Instant(dt) == dt.wall - Off(dt.zone)

PlusMinutes(dt, m) == Ts(dt.wall + m, dt.zone)

\* parser.isoparse(iso), then parser.parse(iso), yields a datetime
Parses(iso) == iso.zone # "malformed"

\* touching endpoints taken as a conflict
overlaps_le(s1, e1, s2, e2) == (Instant(s1) <= Instant(e2)) /\ (Instant(e1) >= Instant(s2))

\* the second comparison made against the wrong endpoint
overlaps_typo(s1, e1, s2, e2) == (Instant(s1) < Instant(e2)) /\ (Instant(e1) > Instant(e2))

overlaps(s1, e1, s2, e2) == (Instant(s1) < Instant(e2)) /\ (Instant(e1) > Instant(s2))

\* ------------------------------------------------------------------ inputs
\* patient_id each caller books for (scripts/verify_phase2.py books P0001, P0051)
PatientOf(p) == IF p = "p1" THEN "P0001" ELSE "P0051"

\* start_iso strings without zone designator: 09:00, 09:30, 10:00
StartIsos == {Ts(540, "naive"), Ts(570, "naive"), Ts(600, "naive")}
Durations == {30, 60}
Statuses == {"tentative", "confirmed", "completed"}

Request(p, d, s, m, st) ==
    [patient_id |-> PatientOf(p), doctor_sheet |-> d, start_iso |-> s,
     duration_minutes |-> m, status |-> st]

RequestSet(p, docs, starts, durs, stats) ==
    {Request(p, d, s, m, st) : d \in docs, s \in starts, m \in durs, st \in stats}

\* the calls of the no-overlap invariant: positive durations, active statuses
ActiveRequests(p) == RequestSet(p, Doctors, StartIsos, Durations, ActiveStatuses)

\* calls with any status, on 09:00 and 09:30
CommitRequests(p) == RequestSet(p, Doctors, {Ts(540, "naive"), Ts(570, "naive")}, Durations, Statuses)

\* calls for one doctor, half-hour visits
SlotRequests(p) == RequestSet(p, {"Dr Asha Rao"}, StartIsos, {30}, {"tentative", "completed"})

\* calls of any length, also zero and negative, with a start string that parses
\* or one that neither isoparse nor parse accepts
InputRequests(p) ==
    RequestSet(p, {"Dr Asha Rao"}, {Ts(540, "naive"), Ts(570, "naive"), Ts(0, "malformed")},
               {30, 0, 0 - 30}, {"tentative"})

\* half-hour visits at 09:00 and 09:30 with one doctor
SourceRequests(p) ==
    RequestSet(p, {"Dr Asha Rao"}, {Ts(540, "naive"), Ts(570, "naive")}, {30}, {"tentative"})

\* 09:00 and 10:00 written without zone by one caller; by the other caller 09:00
\* written with +05:30 and as 03:30 UTC, 10:00 with +05:30, and 09:00 UTC
ZoneRequests(p) ==
    IF p = "p1"
    THEN RequestSet(p, {"Dr Asha Rao"}, {Ts(540, "naive"), Ts(600, "naive")}, {30}, {"tentative"})
    ELSE RequestSet(p, {"Dr Asha Rao"},
                    {Ts(540, "ist"), Ts(210, "utc"), Ts(600, "ist"), Ts(540, "utc")},
                    {30}, {"tentative"})

\* 09:00 visits with either doctor
ResourceRequests(p) ==
    RequestSet(p, Doctors, {Ts(540, "naive")}, Durations, {"tentative"})

\* visits at 09:00, at 10:30 and at 11:00, where the window of the sheet ends
ScheduleRequests(p) ==
    RequestSet(p, {"Dr Asha Rao"}, {Ts(540, "naive"), Ts(630, "naive"), Ts(660, "naive")},
               Durations, {"tentative"})

NoArgs == [absent |-> TRUE]
NoLoop == [absent |-> TRUE]
NoSnap == [absent |-> TRUE]
\* the processes that write calendar_events.xlsx: book_slot callers, a reconcile script
Writers == Procs \cup {"script"}
NoResult == [absent |-> TRUE]

\* values the clock reads (instants, minutes UTC): before 09:00 IST, and 09:30 IST
NowValues == {180, 240}

\* data/doctor_schedules.xlsx: one sheet per doctor, rows (date, start_time, end_time, slot_duration_default)
Rule(d, s, e, g) == [date |-> d, start_time |-> s, end_time |-> e, slot_duration_default |-> g]

\* the sheets of the workbook: one window; a later day listed before an earlier
\* one, and a day more than two weeks ahead; two windows of one day that overlap;
\* a sheet without rows; a sheet with a window that ends before it starts, a start
\* time that is no clock time (written as a negative number) and a slot length "0"
load_doctor_schedule(sheet_name) ==
    IF sheet_name = "Dr Asha Rao" THEN << Rule(0, 540, 660, 30) >>
    ELSE IF sheet_name = "Dr Vikram Gupta" THEN << Rule(1, 540, 720, 30), Rule(0, 540, 600, 30), Rule(15, 540, 600, 30) >>
    ELSE IF sheet_name = "Dr Vikram" THEN << Rule(0, 540, 630, 30), Rule(0, 600, 690, 30) >>
    ELSE IF sheet_name = "Sheet1" THEN << >>
    ELSE IF sheet_name = "Sheet2"
         THEN << Rule(0, 600, 540, 30), Rule(0, 0 - 1, 600, 30), Rule(0, 540, 600, 0) >>
    ELSE << Rule(0, 540, 600, 30) >>

Sheets == {"Dr Asha Rao", "Dr Meera Iyer", "Dr Vikram Gupta", "Dr Vikram", "Sheet1"}

VARIABLES
    ledger,     \* appointments table: appointment_id -> row, NoRow when absent
    mirror,     \* calendar_events.xlsx: the sequence of its rows
    lock,       \* holder of data/appointments.lock, None when free
    now,        \* the clock
    calls,      \* book_slot calls made so far
    pc,         \* position of each book_slot caller
    args,       \* arguments of its current (last) call
    appt_id,    \* its local appt_id
    result,     \* what its last call returned or raised
    fpc,        \* position of the find_available_slots caller
    fargs,      \* arguments of its current (last) call
    fbooked,    \* its local booked, while it is loaded
    fresult,    \* the list its last call returned (its candidates, while it loops)
    floop,      \* its position in the loops over rows and candidates, when followed
    opres,      \* what the last maintenance operation on the ledger reported
    msnap,      \* per writer of calendar_events.xlsx: the sheet it has read and not
                \* yet written back, when the append is followed in two steps
    flow        \* the ConversationState of the process_message run and the node
                \* of the workflow graph that runs next

bvars == << calls, pc, args, appt_id, result >>
fvars == << fpc, fargs, fbooked, fresult, floop >>
vars == << ledger, mirror, lock, now, calls, pc, args, appt_id, result, fpc, fargs, fbooked, fresult, floop, opres, msnap, flow >>

\* --------------------------------------------------------------- loaders
\* the rows of every doctor are loaded
load_all_doctors(doctor_sheet) ==
    { << ledger[i].start_time, ledger[i].end_time >> :
        i \in { j \in ApptIds : ledger[j] # NoRow /\ ledger[j].status \in ActiveStatuses } }

\* SELECT start_time, end_time, status FROM appointments
\*   WHERE doctor_sheet = ? AND status IN ('tentative','confirmed')
load_existing_intervals_from_db(doctor_sheet) ==
    { << ledger[i].start_time, ledger[i].end_time >> :
        i \in { j \in ApptIds : /\ ledger[j] # NoRow
                                /\ ledger[j].doctor_sheet = doctor_sheet
                                /\ ledger[j].status \in ActiveStatuses } }

\* the audit sheet is not consulted
load_ledger_only(doctor_sheet) == load_existing_intervals_from_db(doctor_sheet)

\* the calendar sheet is taken as empty
load_no_events(doctor_sheet) == {}

\* the second half of _load_booked_intervals_for_doctor: the rows of
\* calendar_events.xlsx with df["doctor_sheet"] == doctor_sheet
load_calendar_events(doctor_sheet) ==
    { << mirror[k].start_time, mirror[k].end_time >> :
        k \in { j \in 1..Len(mirror) : mirror[j].doctor_sheet = doctor_sheet } }

load_booked_intervals_for_doctor(doctor_sheet) ==
    load_existing_intervals_from_db(doctor_sheet) \cup load_calendar_events(doctor_sheet)

\* the loop of book_slot over loaded intervals: coerce zone-less values, test overlap
AnyOverlap(start_dt, end_dt, intervals) ==
    \E iv \in intervals :
        overlaps(start_dt, end_dt, AttachDefaultTz(iv[1]), AttachDefaultTz(iv[2]))

\* ------------------------------------------------------------- book_slot
start_dt_of(a) == AttachDefaultTz(a.start_iso)
end_dt_of(a) == PlusMinutes(start_dt_of(a), a.duration_minutes)

Returned(ok, id, msg) == [kind |-> "return", success |-> ok, appointment_id |-> id, message |-> msg]
Raised(exc) == [kind |-> "raise", success |-> FALSE, appointment_id |-> 0, message |-> exc]

MsgConflictDb == "Slot not available or outside doctor's schedule"
MsgConflictCal == "Slot conflicts with calendar events (already booked)"
MsgIntegrity == "DB integrity error"

\* identifiers uuid4 may produce: any used one (a collision) or a fresh one; the
\* fresh ones are interchangeable, so the least unused stands for them
UuidChoices ==
    LET used == { i \in ApptIds : ledger[i] # NoRow }
        free == ApptIds \ used
    IN  used \cup { i \in free : \A j \in free : i <= j }

BookCallOf(p, reqs) ==
    /\ pc[p] \in {"idle", "done"}
    /\ calls < MaxCalls
    /\ \E r \in reqs : args' = [args EXCEPT ![p] = r]
    /\ pc' = [pc EXCEPT ![p] = "wait"]
    /\ result' = [result EXCEPT ![p] = NoResult]
    /\ appt_id' = [appt_id EXCEPT ![p] = 0]
    /\ calls' = calls + 1
    /\ UNCHANGED << ledger, mirror, lock, now, fvars, opres, msnap, flow >>

BookCallActive(p) == BookCallOf(p, ActiveRequests(p))

BookCall(p) == BookCallOf(p, CommitRequests(p))

BookCallSlot(p) == BookCallOf(p, SlotRequests(p))

BookCallInput(p) == BookCallOf(p, InputRequests(p))

BookCallSource(p) == BookCallOf(p, SourceRequests(p))
BookCallResource(p) == BookCallOf(p, ResourceRequests(p))
BookCallSchedule(p) == BookCallOf(p, ScheduleRequests(p))
BookCallZone(p) == BookCallOf(p, ZoneRequests(p))

\* the lock file is not honoured
BookAcquireNoLock(p) ==
    /\ pc[p] = "wait"
    /\ lock' = p
    /\ pc' = [pc EXCEPT ![p] = "check_db"]
    /\ UNCHANGED << ledger, mirror, now, calls, args, appt_id, result, fvars, opres, msnap, flow >>

\* with lock: acquired
BookAcquire(p) ==
    /\ pc[p] = "wait"
    /\ lock = None
    /\ lock' = p
    /\ pc' = [pc EXCEPT ![p] = "check_db"]
    /\ UNCHANGED << ledger, mirror, now, calls, args, appt_id, result, fvars, opres, msnap, flow >>

\* the wait for the lock file has no deadline
BookWaitsOn(p) ==
    /\ pc[p] = "wait"
    /\ lock # None
    /\ UNCHANGED vars

\* FileLock(LOCKFILE, timeout=30): the wait ran out while another caller held the lock
BookTimeout(p) ==
    /\ pc[p] = "wait"
    /\ lock # None
    /\ pc' = [pc EXCEPT ![p] = "done"]
    /\ result' = [result EXCEPT ![p] = Raised("Timeout")]
    /\ UNCHANGED << ledger, mirror, lock, now, calls, args, appt_id, fvars, opres, msnap, flow >>

\* return from inside the with block: the lock is released, the caller has the value
Leave(p, r) ==
    /\ lock' = None
    /\ pc' = [pc EXCEPT ![p] = "done"]
    /\ result' = [result EXCEPT ![p] = r]

\* a conflict return that leaves the lock file held
BookCheckDbHolding(p) ==
    /\ pc[p] = "check_db"
    /\ IF ~Parses(args[p].start_iso)
       THEN Leave(p, Raised("ValueError"))
       ELSE IF AnyOverlap(start_dt_of(args[p]), end_dt_of(args[p]),
                     load_existing_intervals_from_db(args[p].doctor_sheet))
       THEN /\ pc' = [pc EXCEPT ![p] = "done"]
            /\ result' = [result EXCEPT ![p] = Returned(FALSE, 0, MsgConflictDb)]
            /\ UNCHANGED lock
       ELSE /\ pc' = [pc EXCEPT ![p] = "check_cal"]
            /\ UNCHANGED << lock, result >>
    /\ UNCHANGED << ledger, mirror, now, calls, args, appt_id, fvars, opres, msnap, flow >>

\* start_dt = parser.isoparse(start_iso), parser.parse(start_iso) when that fails
\* (its error leaves the with block), then the check against the appointments table
BookCheckDb(p) ==
    /\ pc[p] = "check_db"
    /\ IF ~Parses(args[p].start_iso)
       THEN Leave(p, Raised("ValueError"))
       ELSE IF AnyOverlap(start_dt_of(args[p]), end_dt_of(args[p]),
                     load_existing_intervals_from_db(args[p].doctor_sheet))
       THEN Leave(p, Returned(FALSE, 0, MsgConflictDb))
       ELSE /\ pc' = [pc EXCEPT ![p] = "check_cal"]
            /\ UNCHANGED << lock, result >>
    /\ UNCHANGED << ledger, mirror, now, calls, args, appt_id, fvars, opres, msnap, flow >>

BookCheckCal(p) ==
    /\ pc[p] = "check_cal"
    /\ IF AnyOverlap(start_dt_of(args[p]), end_dt_of(args[p]),
                     load_booked_intervals_for_doctor(args[p].doctor_sheet))
       THEN Leave(p, Returned(FALSE, 0, MsgConflictCal))
       ELSE /\ pc' = [pc EXCEPT ![p] = "insert"]
            /\ UNCHANGED << lock, result >>
    /\ UNCHANGED << ledger, mirror, now, calls, args, appt_id, fvars, opres, msnap, flow >>

\* the end computed from the default visit length instead of duration_minutes
NewRowDefaultLength(a, id, now_iso) ==
    [appointment_id |-> id, patient_id |-> a.patient_id, doctor_sheet |-> a.doctor_sheet,
     start_time |-> start_dt_of(a), end_time |-> PlusMinutes(start_dt_of(a), 30),
     duration_minutes |-> a.duration_minutes, status |-> a.status,
     created_at |-> now_iso, updated_at |-> now_iso, calendly_event_uri |-> ""]

NewRow(a, id, now_iso) ==
    [appointment_id |-> id, patient_id |-> a.patient_id, doctor_sheet |-> a.doctor_sheet,
     start_time |-> start_dt_of(a), end_time |-> end_dt_of(a),
     duration_minutes |-> a.duration_minutes, status |-> a.status,
     created_at |-> now_iso, updated_at |-> now_iso, calendly_event_uri |-> ""]

\* INSERT INTO appointments ...; commit; IntegrityError on a primary-key collision
BookInsert(p) ==
    /\ pc[p] = "insert"
    /\ \E id \in UuidChoices :
         IF ledger[id] # NoRow
         THEN /\ Leave(p, Returned(FALSE, 0, MsgIntegrity))
              /\ UNCHANGED << ledger, appt_id >>
         ELSE /\ ledger' = [ledger EXCEPT ![id] = NewRow(args[p], id, now)]
              /\ appt_id' = [appt_id EXCEPT ![p] = id]
              /\ pc' = [pc EXCEPT ![p] = "append"]
              /\ UNCHANGED << lock, result >>
    /\ UNCHANGED << mirror, now, calls, args, fvars, opres, msnap, flow >>

\* the error strikes after the row was committed
BookInsertErrorAfterCommit(p) ==
    /\ pc[p] = "insert"
    /\ \E id \in ApptIds :
         /\ ledger[id] = NoRow
         /\ ledger' = [ledger EXCEPT ![id] = NewRow(args[p], id, now)]
    /\ Leave(p, Raised("sqlite3.Error"))
    /\ UNCHANGED << mirror, now, calls, args, appt_id, fvars, opres, msnap, flow >>

\* the error leaves book_slot with the lock file still held
BookInsertErrorHolding(p) ==
    /\ pc[p] = "insert"
    /\ pc' = [pc EXCEPT ![p] = "done"]
    /\ result' = [result EXCEPT ![p] = Raised("sqlite3.Error")]
    /\ UNCHANGED << ledger, mirror, lock, now, calls, args, appt_id, fvars, opres, msnap, flow >>

\* any other sqlite3 error of the insert or the commit: finally closes the
\* connection (nothing is committed), the error leaves book_slot
BookInsertError(p) ==
    /\ pc[p] = "insert"
    /\ Leave(p, Raised("sqlite3.Error"))
    /\ UNCHANGED << ledger, mirror, now, calls, args, appt_id, fvars, opres, msnap, flow >>

AuditRow(a, id, now_iso) ==
    [event_id |-> "", appointment_id |-> id, doctor_sheet |-> a.doctor_sheet,
     start_time |-> start_dt_of(a), end_time |-> end_dt_of(a), created_at |-> now_iso,
     source |-> IF a.status = "tentative" THEN "local" ELSE "confirmed"]

\* _append_calendar_event_row(row)
append_calendar_event_row(row) == mirror' = Append(mirror, row)

Success(p) == Returned(TRUE, appt_id[p], "")

BookAppend(p) ==
    /\ pc[p] = "append"
    /\ append_calendar_event_row(AuditRow(args[p], appt_id[p], ledger[appt_id[p]].created_at))
    /\ Leave(p, Success(p))
    /\ UNCHANGED << ledger, now, calls, args, appt_id, fvars, opres, msnap, flow >>

\* _append_calendar_event_row, first half: pd.read_excel(CAL_EVENTS)
BookAppendRead(p) ==
    /\ pc[p] = "append"
    /\ msnap' = [msnap EXCEPT ![p] = [rows |-> mirror]]
    /\ pc' = [pc EXCEPT ![p] = "append_write"]
    /\ UNCHANGED << ledger, mirror, lock, now, calls, args, appt_id, result, fvars, opres, flow >>

\* second half: pd.concat([df, row]) and df.to_excel(CAL_EVENTS); book_slot returns
BookAppendWrite(p) ==
    /\ pc[p] = "append_write"
    /\ mirror' = Append(msnap[p].rows,
                        AuditRow(args[p], appt_id[p], ledger[appt_id[p]].created_at))
    /\ msnap' = [msnap EXCEPT ![p] = NoSnap]
    /\ Leave(p, Success(p))
    /\ UNCHANGED << ledger, now, calls, args, appt_id, fvars, opres, flow >>

\* the Excel error is not caught
BookAppendRaises(p) ==
    /\ pc[p] = "append"
    /\ Leave(p, Raised("OSError"))
    /\ UNCHANGED << ledger, mirror, now, calls, args, appt_id, fvars, opres, msnap, flow >>

\* the Excel write raised: except Exception: pass
BookAppendFailed(p) ==
    /\ pc[p] = "append"
    /\ Leave(p, Success(p))
    /\ UNCHANGED << ledger, mirror, now, calls, args, appt_id, fvars, opres, msnap, flow >>

BookStep(p) ==
    \/ BookAcquire(p)
    \/ BookTimeout(p)
    \/ BookCheckDb(p)
    \/ BookCheckCal(p)
    \/ BookInsert(p)
    \/ BookInsertError(p)
    \/ BookAppend(p)
    \/ BookAppendFailed(p)

\* ------------------------------------------------- find_available_slots
\* an optional argument is the empty set (None) or the set of its value
Given(opt) == CHOOSE x \in opt : TRUE

FindArgs ==
    [doctor_sheet : Doctors, date_from : {{}}, date_to : {{}},
     duration_minutes : Durations, step_minutes : {{}, {60}}, max_results : {100}]

\* calls over every sheet, with and without a date range, step and small max_results
FindArgsWide ==
    [doctor_sheet : Sheets, date_from : {{}, {1}}, date_to : {{}, {1}},
     duration_minutes : Durations, step_minutes : {{}, {30}, {60}}, max_results : {2, 100}]

\* no interval is taken as a conflict
ConflictNever(candidate_start, candidate_end, booked) == FALSE

\* calls for the doctor of SourceRequests
FindArgsSource ==
    [doctor_sheet : {"Dr Asha Rao"}, date_from : {{}}, date_to : {{}},
     duration_minutes : Durations, step_minutes : {{}}, max_results : {100}]

\* calls for either doctor
FindArgsResource ==
    [doctor_sheet : Doctors, date_from : {{}}, date_to : {{}},
     duration_minutes : {30}, step_minutes : {{}}, max_results : {100}]

\* the loop over booked of find_available_slots
Conflict(candidate_start, candidate_end, booked) == AnyOverlap(candidate_start, candidate_end, booked)

\* while cur <= last_start_allowed and len(candidates) < max_results
RECURSIVE CandidateLoop(_, _, _, _, _, _, _)
CandidateLoop(cur, last_start_allowed, step, candidates, a, booked, clock) ==
    IF ~(Instant(cur) <= Instant(last_start_allowed) /\ Len(candidates) < a.max_results)
    THEN candidates
    ELSE LET candidate_end == PlusMinutes(cur, a.duration_minutes)
             next == PlusMinutes(cur, step)
         IN  IF Instant(candidate_end) <= clock
             THEN CandidateLoop(next, last_start_allowed, step, candidates, a, booked, clock)
             ELSE IF Conflict(cur, candidate_end, booked)
             THEN CandidateLoop(next, last_start_allowed, step, candidates, a, booked, clock)
             ELSE CandidateLoop(next, last_start_allowed, step, Append(candidates, cur), a, booked, clock)

\* for _, row in df.iterrows()
RECURSIVE RowLoop(_, _, _, _, _, _)
RowLoop(df, i, candidates, a, booked, clock) ==
    IF i > Len(df) THEN candidates
    ELSE LET row == df[i]
             day == row.date
             day_start == Ts(day * MinutesPerDay + row.start_time, "ist")
             day_end == Ts(day * MinutesPerDay + row.end_time, "ist")
             step == IF a.step_minutes = {} \/ a.step_minutes = {0}
                     THEN row.slot_duration_default ELSE Given(a.step_minutes)
         IN  IF \/ (a.date_from # {} /\ day < Given(a.date_from))
                \/ (a.date_to # {} /\ day > Given(a.date_to))
                \/ Instant(day_end) <= Instant(day_start)
             THEN RowLoop(df, i + 1, candidates, a, booked, clock)
             ELSE RowLoop(df, i + 1,
                          CandidateLoop(day_start, PlusMinutes(day_end, 0 - a.duration_minutes),
                                        step, candidates, a, booked, clock),
                          a, booked, clock)

Before(x, y) == Instant(x) < Instant(y)

\* sorted(candidates)[:max_results]
SortedPrefix(candidates, max_results) ==
    LET candidates_sorted == SortSeq(candidates, Before)
    IN  SubSeq(candidates_sorted, 1, IF Len(candidates_sorted) < max_results
                                     THEN Len(candidates_sorted) ELSE max_results)

\* the clock read an hour behind
find_slots_stale_clock(a, booked, clock) ==
    SortedPrefix(RowLoop(load_doctor_schedule(a.doctor_sheet), 1, << >>, a, booked, clock - 60),
                 a.max_results)

\* step_minutes not honoured
find_slots_default_step(a, booked, clock) ==
    SortedPrefix(RowLoop(load_doctor_schedule(a.doctor_sheet), 1, << >>,
                         [a EXCEPT !.step_minutes = {}], booked, clock),
                 a.max_results)

find_available_slots(a, booked, clock) ==
    SortedPrefix(RowLoop(load_doctor_schedule(a.doctor_sheet), 1, << >>, a, booked, clock),
                 a.max_results)

\* the call, the schedule sheet and the SELECT of _load_booked_intervals_for_doctor
FindReadDbOf(argset) ==
    /\ fpc \in {"idle", "done"}
    /\ \E a \in argset : fargs' = a
    /\ fbooked' = load_existing_intervals_from_db(fargs'.doctor_sheet)
    /\ fresult' = << >>
    /\ fpc' = "read_cal"
    /\ floop' = NoLoop
    /\ UNCHANGED << ledger, mirror, lock, now, bvars, opres, msnap, flow >>

FindReadDb == FindReadDbOf(FindArgs)

FindReadDbWide == FindReadDbOf(FindArgsWide)

FindReadDbSource == FindReadDbOf(FindArgsSource)
FindReadDbResource == FindReadDbOf(FindArgsResource)

\* the second read waits until no caller holds the lock file
FindReadCalLocked ==
    /\ fpc = "read_cal"
    /\ lock = None
    /\ LET booked == fbooked \cup load_calendar_events(fargs.doctor_sheet)
       IN  fresult' = find_available_slots(fargs, booked, now)
    /\ fbooked' = {}
    /\ fpc' = "done"
    /\ UNCHANGED << ledger, mirror, lock, now, bvars, fargs, floop, opres, msnap, flow >>

\* the read of calendar_events.xlsx, then the candidate loops and the sort
FindReadCal ==
    /\ fpc = "read_cal"
    /\ LET booked == fbooked \cup load_calendar_events(fargs.doctor_sheet)
       IN  fresult' = find_available_slots(fargs, booked, now)
    /\ fbooked' = {}
    /\ fpc' = "done"
    /\ UNCHANGED << ledger, mirror, lock, now, bvars, fargs, floop, opres, msnap, flow >>

\* ------------------------------- find_available_slots, iteration by iteration
\* calls with a supplied step, also a negative one, and with the step left to the rule
FindArgsLoop ==
    [doctor_sheet : {"Dr Asha Rao", "Dr Vikram Gupta", "Sheet2"},
     date_from : {{}}, date_to : {{}, {1}},
     duration_minutes : {30}, step_minutes : {{}, {30}, {0 - 30}}, max_results : {2, 100}]

FindReadDbLoop == FindReadDbOf(FindArgsLoop)

\* _parse_clock(tstr) returns a time
ParsesClock(c) == c >= 0

\* datetime.min: a sum below it raises OverflowError
DatetimeMin == Ts(0 - MaxBack * 60, "ist")

\* slot_default = int(row.get("slot_duration_default") or ... or 30): the cells are
\* strings, so "0" is kept; step = int(step_minutes) if step_minutes else slot_default
StepMinutes(a, row) ==
    IF a.step_minutes = {} \/ a.step_minutes = {0}
    THEN row.slot_duration_default ELSE Given(a.step_minutes)

\* a row is passed over: outside the date range, a clock time that does not
\* parse, or day_end <= day_start
RowSkipped(a, row) ==
    \/ (a.date_from # {} /\ row.date < Given(a.date_from))
    \/ (a.date_to # {} /\ row.date > Given(a.date_to))
    \/ ~ParsesClock(row.start_time)
    \/ ~ParsesClock(row.end_time)
    \/ row.end_time <= row.start_time

\* the read of calendar_events.xlsx; the loop over the rows is entered
FindEnterLoop ==
    /\ fpc = "read_cal"
    /\ fbooked' = fbooked \cup load_calendar_events(fargs.doctor_sheet)
    /\ fpc' = "loop"
    /\ floop' = [row |-> 1, inrow |-> FALSE, cur |-> DatetimeMin]
    /\ UNCHANGED << ledger, mirror, lock, now, bvars, fargs, fresult, opres, msnap, flow >>

\* one pass of the for loop header or of the while loop; after the last row,
\* sorted(candidates)[:max_results] is returned
FindIterate ==
    /\ fpc = "loop"
    /\ LET df == load_doctor_schedule(fargs.doctor_sheet)
           i == floop.row
       IN  IF i > Len(df)
           THEN /\ fresult' = SortedPrefix(fresult, fargs.max_results)
                /\ fpc' = "done"
                /\ floop' = NoLoop
           ELSE IF ~floop.inrow
           THEN /\ floop' = IF RowSkipped(fargs, df[i])
                             THEN [row |-> i + 1, inrow |-> FALSE, cur |-> DatetimeMin]
                             ELSE [row |-> i, inrow |-> TRUE,
                                   cur |-> Ts(df[i].date * MinutesPerDay + df[i].start_time, "ist")]
                /\ UNCHANGED << fpc, fresult >>
           ELSE LET cur == floop.cur
                    day_end == Ts(df[i].date * MinutesPerDay + df[i].end_time, "ist")
                    last_start_allowed == PlusMinutes(day_end, 0 - fargs.duration_minutes)
                    candidate_end == PlusMinutes(cur, fargs.duration_minutes)
                    next == PlusMinutes(cur, StepMinutes(fargs, df[i]))
                IN  IF ~( Instant(cur) <= Instant(last_start_allowed)
                          /\ Len(fresult) < fargs.max_results )
                    THEN /\ floop' = [row |-> i + 1, inrow |-> FALSE, cur |-> DatetimeMin]
                         /\ UNCHANGED << fpc, fresult >>
                    ELSE IF Instant(next) < Instant(DatetimeMin)
                    THEN /\ fpc' = "done"
                         /\ fresult' = << >>
                         /\ floop' = [raised |-> "OverflowError"]
                    ELSE /\ floop' = [floop EXCEPT !.cur = next]
                         /\ fresult' = IF \/ Instant(candidate_end) <= now
                                          \/ Conflict(cur, candidate_end, fbooked)
                                       THEN fresult ELSE Append(fresult, cur)
                         /\ fpc' = fpc
    /\ UNCHANGED << ledger, mirror, lock, now, bvars, fargs, fbooked, opres, msnap, flow >>

\* ------------------------------------------------ other ledger operations
\* AppointmentDB.update_appointment(id, {'status': 'cancelled', 'updated_at': ...})
Cancel(id) ==
    /\ ledger[id] # NoRow
    /\ ledger' = [ledger EXCEPT ![id].status = "cancelled", ![id].updated_at = now]
    /\ opres' = [op |-> "cancel", id |-> id, success |-> TRUE]
    /\ UNCHANGED << mirror, lock, now, bvars, fvars, msnap, flow >>

\* appointment_data of bookings made through an outside channel: no appointment_id,
\* start and end as zone-less strings
ExternalEvents ==
    { [doctor |-> "Dr Meera Iyer", start_time |-> Ts(540, "naive"), end_time |-> Ts(600, "naive")],
      [doctor |-> "Dr Vikram", start_time |-> Ts(570, "naive"), end_time |-> Ts(600, "naive")] }

\* the columns of event_record the scheduler reads, and its status columns
EventRecord(appointment_data, now_iso) ==
    [event_id |-> "evt", appointment_id |-> 0, doctor_sheet |-> appointment_data.doctor,
     start_time |-> appointment_data.start_time, end_time |-> appointment_data.end_time,
     created_at |-> now_iso, source |-> "", status |-> "scheduled", updated_at |-> now_iso]

\* CalendlyService.simulate_calendar_booking(appointment_data, patient_data)
SimulateBookingOf(events) ==
    /\ Cardinality({ k \in 1..Len(mirror) : mirror[k].event_id = "evt" }) < MaxEvents
    /\ \E appointment_data \in events :
          mirror' = Append(mirror, EventRecord(appointment_data, now))
    /\ UNCHANGED << ledger, lock, now, bvars, fvars, opres, msnap, flow >>

SimulateBooking == SimulateBookingOf(ExternalEvents)

\* a 10:00 half-hour visit booked through an outside channel
OutsideBookings ==
    { [doctor |-> "Dr Asha Rao", start_time |-> Ts(600, "naive"), end_time |-> Ts(630, "naive")] }

SimulateOutside == SimulateBookingOf(OutsideBookings)

\* a 09:00 hour booked with Dr Meera Iyer through an outside channel
SimulateMeera ==
    SimulateBookingOf({ [doctor |-> "Dr Meera Iyer", start_time |-> Ts(540, "naive"),
                         end_time |-> Ts(600, "naive")] })

\* CalendlyService.cancel_booking(event_id): the rows of the event are rewritten
\* with status 'cancelled'; success is reported when the event is in the sheet
cancel_booking(event_id) ==
    LET hit == { k \in 1..Len(mirror) : mirror[k].event_id = event_id }
    IN  /\ mirror' = [k \in 1..Len(mirror) |->
                        IF k \in hit
                        THEN [mirror[k] EXCEPT !.status = "cancelled", !.updated_at = now]
                        ELSE mirror[k]]
        /\ opres' = [op |-> "cancel_booking", id |-> 0, success |-> hit # {}]
        /\ UNCHANGED << ledger, lock, now, bvars, fvars, msnap, flow >>

CancelBooking == cancel_booking("evt")

\* the appointment the reminder handler looks its reminder up for
DummyId == 0

\* ReminderDB.get_reminders_by_appointment(appointment_id): every booking has its
\* reminders, filed under its own identifier
get_reminders_by_appointment(appointment_id) ==
    { i \in ApptIds : ledger[i] # NoRow /\ i = appointment_id }

\* ReminderAgent.record_patient_response(reminder_id, 'visit confirmed: no') for a
\* reminder of booking id: the reminder is looked up under "dummy"; with no such
\* reminder the subscript [0] raises and the handler returns False
RecordPatientResponse(id) ==
    /\ ledger[id] # NoRow
    /\ LET found == get_reminders_by_appointment(DummyId)
       IN  IF found = {}
           THEN /\ opres' = [op |-> "cancel", id |-> id, success |-> FALSE]
                /\ UNCHANGED ledger
           ELSE LET target == CHOOSE i \in found : TRUE
                IN  /\ ledger' = [ledger EXCEPT ![target].status = "cancelled",
                                                ![target].updated_at = now]
                    /\ opres' = [op |-> "cancel", id |-> id, success |-> TRUE]
    /\ UNCHANGED << mirror, lock, now, bvars, fvars, msnap, flow >>

\* intervals given to scripts/update_appt_times.py: 09:00-09:30 and 09:30-10:00
NewTimes == { << Ts(540, "ist"), Ts(570, "ist") >>, << Ts(570, "ist"), Ts(600, "ist") >> }

\* update_appt(appointment_id, new_start_iso, new_end_iso): one UPDATE, no lock
update_appt(appointment_id, new_start_iso, new_end_iso) ==
    /\ ledger' = IF ledger[appointment_id] = NoRow THEN ledger
                 ELSE [ledger EXCEPT ![appointment_id].start_time = new_start_iso,
                                     ![appointment_id].end_time = new_end_iso,
                                     ![appointment_id].status = "confirmed",
                                     ![appointment_id].updated_at = now]
    /\ opres' = [op |-> "update_appt", id |-> appointment_id, success |-> TRUE]
    /\ UNCHANGED << mirror, lock, now, bvars, fvars, msnap, flow >>

\* the script run with zone-less strings: 09:30-10:00
UpdateApptNaive ==
    \E id \in ApptIds : update_appt(id, Ts(570, "naive"), Ts(600, "naive"))

UpdateAppt == \E id \in ApptIds : \E t \in NewTimes : update_appt(id, t[1], t[2])

\* mirror rows written by the reconciliation scripts
ReconcileRows == { k \in 1..Len(mirror) : mirror[k].source \in {"manual", "calendly"} }

\* the interval is rewritten along with the confirmation
mark_confirmed_moves(appointment_id, start_iso, end_iso, calendly_event_uri) ==
    /\ Cardinality(ReconcileRows) < MaxEvents
    /\ ledger' = IF ledger[appointment_id] = NoRow THEN ledger
                 ELSE [ledger EXCEPT ![appointment_id].status = "confirmed",
                                     ![appointment_id].start_time = start_iso,
                                     ![appointment_id].end_time = end_iso,
                                     ![appointment_id].calendly_event_uri = calendly_event_uri,
                                     ![appointment_id].updated_at = now]
    /\ mirror' = Append(mirror,
                        [event_id |-> calendly_event_uri, appointment_id |-> appointment_id,
                         doctor_sheet |-> "", start_time |-> start_iso, end_time |-> end_iso,
                         created_at |-> now, source |-> "manual"])
    /\ opres' = [op |-> "reconcile", id |-> appointment_id, success |-> TRUE]
    /\ UNCHANGED << lock, now, bvars, fvars, msnap, flow >>

\* scripts/manual_reconcile.py mark_confirmed: the UPDATE of status,
\* calendly_event_uri and updated_at, then the row appended to calendar_events.xlsx
mark_confirmed(appointment_id, start_iso, end_iso, calendly_event_uri) ==
    /\ Cardinality(ReconcileRows) < MaxEvents
    /\ ledger' = IF ledger[appointment_id] = NoRow THEN ledger
                 ELSE [ledger EXCEPT ![appointment_id].status = "confirmed",
                                     ![appointment_id].calendly_event_uri = calendly_event_uri,
                                     ![appointment_id].updated_at = now]
    /\ mirror' = Append(mirror,
                        [event_id |-> calendly_event_uri, appointment_id |-> appointment_id,
                         doctor_sheet |-> "", start_time |-> start_iso, end_time |-> end_iso,
                         created_at |-> now, source |-> "manual"])
    /\ opres' = [op |-> "reconcile", id |-> appointment_id, success |-> TRUE]
    /\ UNCHANGED << lock, now, bvars, fvars, msnap, flow >>

\* mark_confirmed up to pd.read_excel(CAL_EVENTS): the UPDATE is committed, the
\* sheet is read and the new row is ready
MarkConfirmedRead ==
    \E id \in ApptIds : \E t \in NewTimes :
        /\ msnap["script"] = NoSnap
        /\ Cardinality(ReconcileRows) < MaxEvents
        /\ ledger' = IF ledger[id] = NoRow THEN ledger
                     ELSE [ledger EXCEPT ![id].status = "confirmed",
                                         ![id].calendly_event_uri = "uri",
                                         ![id].updated_at = now]
        /\ msnap' = [msnap EXCEPT !["script"] =
                        [rows |-> mirror,
                         row |-> [event_id |-> "uri", appointment_id |-> id,
                                  doctor_sheet |-> "", start_time |-> t[1], end_time |-> t[2],
                                  created_at |-> now, source |-> "manual"]]]
        /\ UNCHANGED << mirror, lock, now, bvars, fvars, opres, flow >>

\* pd.concat([df, row]) and df.to_excel(CAL_EVENTS)
MarkConfirmedWrite ==
    /\ msnap["script"] # NoSnap
    /\ mirror' = Append(msnap["script"].rows, msnap["script"].row)
    /\ msnap' = [msnap EXCEPT !["script"] = NoSnap]
    /\ opres' = [op |-> "reconcile", id |-> msnap["script"].row.appointment_id,
                 success |-> TRUE]
    /\ UNCHANGED << ledger, lock, now, bvars, fvars, flow >>

MarkConfirmed ==
    \E id \in ApptIds : \E t \in NewTimes : mark_confirmed(id, t[1], t[2], "uri")

\* scripts/reconcile_calendly.py main, once the scheduled event ev is found:
\* update_appointment_confirmed(appt_id, ev), then the row with doctor_sheet
\* "unknown" appended to calendar_events.xlsx
ReconcileCalendly ==
    \E id \in ApptIds : \E t \in NewTimes :
        /\ Cardinality(ReconcileRows) < MaxEvents
        /\ ledger' = IF ledger[id] = NoRow THEN ledger
                     ELSE [ledger EXCEPT ![id].status = "confirmed",
                                         ![id].calendly_event_uri = "uri",
                                         ![id].updated_at = now]
        /\ mirror' = Append(mirror,
                            [event_id |-> "uri", appointment_id |-> id,
                             doctor_sheet |-> "unknown", start_time |-> t[1], end_time |-> t[2],
                             created_at |-> now, source |-> "calendly"])
        /\ opres' = [op |-> "reconcile", id |-> id, success |-> TRUE]
        /\ UNCHANGED << lock, now, bvars, fvars, msnap, flow >>

\* updated_at of a row that was never updated (NULL)
NoTime == 0 - 1

\* ------------------------------------------------ frontend/streamlit_app.py
\* the parameters of book_slot, and the keywords the Confirm booking handler passes
BookSlotParams ==
    {"patient_id", "doctor_sheet", "start_iso", "duration_minutes", "status",
     "calendly_prefill_url"}
ConfirmKeywords == {"patient_id", "doctor", "start_time", "duration"}

\* the slots a patient can have selected from the list shown: 09:00 and 09:30 with
\* Dr Asha Rao; a returning patient gets 30 minutes, a new one 60
SelectedSlots ==
    [doctor : {"Dr Asha Rao"}, start : {Ts(540, "ist"), Ts(570, "ist")}, duration : Durations]

\* Confirm booking: scheduler.book_slot(patient_id=, doctor=, start_time=, duration=);
\* a keyword that is no parameter raises TypeError before book_slot runs, and the
\* except branch inserts the row itself with status 'confirmed'; a taken
\* identifier raises out of the handler
ConfirmBooking(p) ==
    /\ pc[p] \in {"idle", "done"}
    /\ calls < MaxCalls
    /\ calls' = calls + 1
    /\ \E slot \in SelectedSlots :
        LET a == [patient_id |-> PatientOf(p), doctor_sheet |-> slot.doctor,
                  start_iso |-> slot.start, duration_minutes |-> slot.duration,
                  status |-> "tentative"]
        IN  /\ args' = [args EXCEPT ![p] = a]
            /\ IF ConfirmKeywords \subseteq BookSlotParams
               THEN /\ pc' = [pc EXCEPT ![p] = "wait"]
                    /\ result' = [result EXCEPT ![p] = NoResult]
                    /\ appt_id' = [appt_id EXCEPT ![p] = 0]
                    /\ UNCHANGED ledger
               ELSE /\ pc' = [pc EXCEPT ![p] = "done"]
                    /\ \E id \in UuidChoices :
                         IF ledger[id] # NoRow
                         THEN /\ result' = [result EXCEPT ![p] = Raised("sqlite3.IntegrityError")]
                              /\ appt_id' = [appt_id EXCEPT ![p] = 0]
                              /\ UNCHANGED ledger
                         ELSE /\ ledger' = [ledger EXCEPT ![id] =
                                    [appointment_id |-> id, patient_id |-> a.patient_id,
                                     doctor_sheet |-> a.doctor_sheet,
                                     start_time |-> a.start_iso,
                                     end_time |-> PlusMinutes(a.start_iso, a.duration_minutes),
                                     duration_minutes |-> a.duration_minutes,
                                     status |-> "confirmed", created_at |-> now,
                                     updated_at |-> NoTime, calendly_event_uri |-> ""]]
                              /\ appt_id' = [appt_id EXCEPT ![p] = id]
                              /\ result' = [result EXCEPT ![p] =
                                                Returned(TRUE, id, "Booked (fallback)")]
    /\ UNCHANGED << mirror, lock, now, fvars, opres, msnap, flow >>

\* ------------------------------------------- SchedulingAgent / AppointmentDB
\* the agent keeps its own appointments table (column doctor, status 'scheduled');
\* its rows are written here with the field names of the ledger rows above, the
\* doctor under doctor_sheet

CLINIC_START_HOUR == 9
CLINIC_END_HOUR == 17
NEW_PATIENT_DURATION == 60
RETURNING_PATIENT_DURATION == 30

\* generate_time_slots(date, start_hour, end_hour): every half hour, localized
generate_time_slots(date, start_hour, end_hour) ==
    { Ts(date * MinutesPerDay + hour * 60 + minute, "ist") :
        hour \in start_hour .. (end_hour - 1), minute \in {0, 30} }

\* AppointmentDB.get_appointments_by_doctor_and_date: rows of the doctor whose
\* start_time string lies within the day and whose status is not 'cancelled'
get_appointments_by_doctor_and_date(doctor, date) ==
    { i \in ApptIds :
        /\ ledger[i] # NoRow
        /\ ledger[i].doctor_sheet = doctor
        /\ ledger[i].start_time.wall \div MinutesPerDay = date
        /\ ledger[i].status # "cancelled" }

\* is_slot_available(slot_time, booked_slots, duration_minutes)
is_slot_available(slot_time, booked_slots, duration_minutes) ==
    \A b \in booked_slots :
        ~( Instant(slot_time) < Instant(b[2])
           /\ Instant(slot_time) + duration_minutes > Instant(b[1]) )

\* get_available_slots(doctor, date, duration_minutes): start times of the free slots
get_available_slots(doctor, date, duration_minutes) ==
    LET booked_slots == { << ledger[i].start_time, ledger[i].end_time >> :
                            i \in get_appointments_by_doctor_and_date(doctor, date) }
    IN  { slot \in generate_time_slots(date, CLINIC_START_HOUR, CLINIC_END_HOUR) :
            is_slot_available(slot, booked_slots, duration_minutes) }

\* the slot whose display time holds the wanted time, else the first available one
SelectSlot(available, wanted) ==
    IF wanted # {} /\ \E slot \in available : slot.wall % MinutesPerDay = Given(wanted)
    THEN CHOOSE slot \in available : slot.wall % MinutesPerDay = Given(wanted)
    ELSE CHOOSE slot \in available : \A other \in available : slot.wall <= other.wall

\* appointment_data and patient of create_appointment calls
AgentRequests ==
    [patient_id : {"P0001"}, is_returning : BOOLEAN, doctor : {"Dr Asha Rao"},
     preferred_date : {0}, preferred_time : {{}, {570}}]

\* create_appointment up to the choice of the slot
AgentCreate(p) ==
    /\ pc[p] \in {"idle", "done"}
    /\ calls < MaxCalls
    /\ calls' = calls + 1
    /\ \E r \in AgentRequests :
        LET duration == IF r.is_returning THEN RETURNING_PATIENT_DURATION
                        ELSE NEW_PATIENT_DURATION
            available_slots == get_available_slots(r.doctor, r.preferred_date, duration)
        IN  IF available_slots = {}
            THEN /\ args' = [args EXCEPT ![p] = r]
                 /\ pc' = [pc EXCEPT ![p] = "done"]
                 /\ result' = [result EXCEPT ![p] =
                        Returned(FALSE, 0, "No available slots for the requested date and doctor")]
            ELSE /\ args' = [args EXCEPT ![p] =
                        [patient_id |-> r.patient_id, doctor_sheet |-> r.doctor,
                         start_iso |-> SelectSlot(available_slots, r.preferred_time),
                         duration_minutes |-> duration, status |-> "scheduled"]]
                 /\ pc' = [pc EXCEPT ![p] = "agent_insert"]
                 /\ result' = [result EXCEPT ![p] = NoResult]
    /\ appt_id' = [appt_id EXCEPT ![p] = 0]
    /\ UNCHANGED << ledger, mirror, lock, now, fvars, opres, msnap, flow >>

\* AppointmentDB.create_appointment: the INSERT, which fails on a taken identifier
AgentInsert(p) ==
    /\ pc[p] = "agent_insert"
    /\ \E id \in UuidChoices :
        IF ledger[id] # NoRow
        THEN /\ result' = [result EXCEPT ![p] = Returned(FALSE, 0, "Failed to create appointment")]
             /\ UNCHANGED << ledger, appt_id >>
        ELSE /\ ledger' = [ledger EXCEPT ![id] =
                    [appointment_id |-> id, patient_id |-> args[p].patient_id,
                     doctor_sheet |-> args[p].doctor_sheet,
                     start_time |-> args[p].start_iso,
                     end_time |-> PlusMinutes(args[p].start_iso, args[p].duration_minutes),
                     duration_minutes |-> args[p].duration_minutes,
                     status |-> "scheduled", created_at |-> now, updated_at |-> NoTime,
                     calendly_event_uri |-> ""]]
             /\ appt_id' = [appt_id EXCEPT ![p] = id]
             /\ result' = [result EXCEPT ![p] = Returned(TRUE, id, "")]
    /\ pc' = [pc EXCEPT ![p] = "done"]
    /\ UNCHANGED << mirror, lock, now, calls, args, fvars, opres, msnap, flow >>

\* the columns AppointmentDB.update_appointment writes
UpdatableFields == {"status", "reason", "form_sent", "calendly_url", "updated_at"}

\* AppointmentDB.update_appointment(appointment_id, updates) on the row: the
\* fields of updates outside the list are skipped
update_appointment(row, updates) ==
    [f \in DOMAIN row |->
        IF f \in DOMAIN updates /\ f \in UpdatableFields THEN updates[f] ELSE row[f]]

\* SchedulingAgent.reschedule_appointment(appointment_id, new_date, new_time)
Reschedule(appointment_id, new_date, new_time) ==
    /\ IF ledger[appointment_id] = NoRow
       THEN /\ opres' = [op |-> "reschedule", id |-> appointment_id, success |-> FALSE]
            /\ UNCHANGED ledger
       ELSE LET appointment == ledger[appointment_id]
                available_slots == get_available_slots(appointment.doctor_sheet, new_date,
                                                       appointment.duration_minutes)
            IN  IF available_slots = {}
                THEN /\ opres' = [op |-> "reschedule", id |-> appointment_id,
                                  success |-> FALSE]
                     /\ UNCHANGED ledger
                ELSE LET selected_slot == SelectSlot(available_slots, new_time)
                         updates ==
                            [start_time |-> selected_slot,
                             end_time |-> PlusMinutes(selected_slot,
                                                      appointment.duration_minutes),
                             updated_at |-> now]
                     IN  /\ ledger' = [ledger EXCEPT ![appointment_id] =
                                          update_appointment(appointment, updates)]
                         /\ opres' = [op |-> "reschedule", id |-> appointment_id,
                                      success |-> TRUE, start_time |-> updates.start_time,
                                      end_time |-> updates.end_time]
    /\ UNCHANGED << mirror, lock, now, bvars, fvars, msnap, flow >>

AgentReschedule ==
    \E id \in ApptIds : \E new_time \in {{}, {570}, {600}} : Reschedule(id, 0, new_time)

\* ------------------------------------------------------- the workflow graph

\* no process_message run has been made
NoFlow == [node |-> "idle"]

\* required_patient_fields and required_appointment_fields of _should_collect_more_info
RequiredPatientFields == {"first_name", "last_name", "dob"}
RequiredAppointmentFields == {"doctor", "preferred_date"}

\* the recursion limit graph.invoke(initial_state) runs under: no config is passed,
\* so it is the library's default
RecursionLimit == 25

\* what nlu_agent.parse_utterance makes of the message: the fields it found, and
\* whether it asks for a follow-up (no preferred_time_window is given)
ParseResults ==
    [patient : {RequiredPatientFields, {"first_name", "last_name"}, {}},
     appointment : {RequiredAppointmentFields, {"doctor"}},
     needs_followup : BOOLEAN, followup_question : BOOLEAN]

\* _should_collect_more_info(state)
should_collect_more_info(state) ==
    IF state.needs_followup THEN "collect_info"
    ELSE IF \/ \E f \in RequiredPatientFields : f \notin state.patient_data
            \/ \E f \in RequiredAppointmentFields : f \notin state.appointment_data
         THEN "collect_info"
         ELSE "lookup_patient"

\* the mapping both conditional edges of _build_graph carry
ConditionalEdge(route) ==
    IF route = "collect_info" THEN "collect_missing_info" ELSE "lookup_patient"

\* the first n entries of a list of slots in time order
FirstSlots(slots, n) ==
    { s \in slots : Cardinality({ t \in slots : t.wall < s.wall }) < n }

\* the loop of get_suggested_slots over the next 7 days: up to 2 slots per day,
\* until there are 5
RECURSIVE SuggestNextDays(_, _, _, _, _)
SuggestNextDays(doctor, date, duration_minutes, i, slots) ==
    IF i > 7 \/ Cardinality(slots) >= 5 THEN slots
    ELSE SuggestNextDays(doctor, date, duration_minutes, i + 1,
            slots \cup FirstSlots(get_available_slots(doctor, date + i, duration_minutes), 2))

\* SchedulingAgent.get_suggested_slots(doctor, preferred_date, None, duration_minutes)
get_suggested_slots(doctor, preferred_date, duration_minutes) ==
    LET slots == FirstSlots(get_available_slots(doctor, preferred_date, duration_minutes), 3)
    IN  IF Cardinality(slots) < 3
        THEN FirstSlots(SuggestNextDays(doctor, preferred_date, duration_minutes, 1, slots), 5)
        ELSE slots

\* process_message: the initial state with the user's message, entering the graph
\* at its entry point
ProcessMessage ==
    /\ flow.node \in {"idle", "END", "error"}
    /\ calls < MaxCalls
    /\ calls' = calls + 1
    /\ flow' = [node |-> "parse_input", steps |-> 0, messages |-> 1,
                current_step |-> "start", patient_data |-> {}, appointment_data |-> {},
                duration_minutes |-> 0, patient_object |-> {}, appointment_object |-> 0,
                available_slots |-> {}, errors |-> 0, needs_followup |-> FALSE,
                followup_question |-> FALSE, is_complete |-> FALSE]
    /\ UNCHANGED << ledger, mirror, lock, now, pc, args, appt_id, result, fvars, opres, msnap >>

\* a node of the graph may run: the run is inside the graph and under the limit
NodeRuns(name) ==
    /\ flow.node = name
    /\ flow.steps < RecursionLimit

\* the state a node returns, and the node its outgoing edge leads to
NodeReturns(state, next) ==
    flow' = [state EXCEPT !.node = next, !.steps = flow.steps + 1]

\* _parse_input, followed by the conditional edge out of parse_input
ParseInput ==
    /\ NodeRuns("parse_input")
    /\ \E parsed_result \in ParseResults :
        LET state == [flow EXCEPT
                !.patient_data = flow.patient_data \cup parsed_result.patient,
                !.appointment_data = flow.appointment_data \cup parsed_result.appointment,
                !.needs_followup = parsed_result.needs_followup,
                !.followup_question = parsed_result.followup_question,
                !.current_step = "parsed"]
        IN  NodeReturns(state, ConditionalEdge(should_collect_more_info(state)))
    /\ UNCHANGED << ledger, mirror, lock, now, bvars, fvars, opres, msnap >>

\* _collect_missing_info, followed by the conditional edge out of collect_missing_info
CollectMissingInfo ==
    /\ NodeRuns("collect_missing_info")
    /\ LET state == [flow EXCEPT
                !.current_step = "collecting_info",
                !.messages = IF flow.followup_question THEN flow.messages + 1
                             ELSE flow.messages]
       IN  NodeReturns(state, ConditionalEdge(should_collect_more_info(state)))
    /\ UNCHANGED << ledger, mirror, lock, now, bvars, fvars, opres, msnap >>

\* _lookup_patient: the patient is found, is created, or the lookup reports errors
LookupPatient ==
    /\ NodeRuns("lookup_patient")
    /\ \E outcome \in {"returning", "new", "errors"} :
        LET state ==
                IF outcome = "errors" THEN [flow EXCEPT !.errors = flow.errors + 1]
                ELSE [flow EXCEPT
                        !.patient_object = {outcome},
                        !.current_step = "patient_found",
                        !.duration_minutes =
                            IF outcome = "new" THEN 60 ELSE 30]
        IN  NodeReturns(state, "find_slots")
    /\ UNCHANGED << ledger, mirror, lock, now, bvars, fvars, opres, msnap >>

\* _find_slots
FindSlots ==
    /\ NodeRuns("find_slots")
    /\ LET state ==
            IF flow.patient_object = {}
            THEN [flow EXCEPT !.errors = flow.errors + 1]
            ELSE IF ~ (RequiredAppointmentFields \subseteq flow.appointment_data)
            THEN [flow EXCEPT !.errors = flow.errors + 1]
            ELSE [flow EXCEPT
                    !.available_slots =
                        get_suggested_slots("Dr Asha Rao", 0, flow.duration_minutes),
                    !.current_step = "slots_found"]
       IN  NodeReturns(state, "create_appointment")
    /\ UNCHANGED << ledger, mirror, lock, now, bvars, fvars, opres, msnap >>

\* _create_appointment with SchedulingAgent.create_appointment: the first free slot
\* of the preferred date is inserted under a new identifier
CreateAppointment ==
    /\ NodeRuns("create_appointment")
    /\ IF flow.available_slots = {}
       THEN /\ NodeReturns([flow EXCEPT !.errors = flow.errors + 1], "setup_reminders")
            /\ UNCHANGED ledger
       ELSE LET duration == flow.duration_minutes
                available_slots == get_available_slots("Dr Asha Rao", 0, duration)
            IN  IF available_slots = {}
                THEN /\ NodeReturns([flow EXCEPT !.errors = flow.errors + 1],
                                    "setup_reminders")
                     /\ UNCHANGED ledger
                ELSE \E id \in UuidChoices :
                        IF ledger[id] # NoRow
                        THEN /\ NodeReturns([flow EXCEPT !.errors = flow.errors + 1],
                                            "setup_reminders")
                             /\ UNCHANGED ledger
                        ELSE LET selected_slot == SelectSlot(available_slots, {})
                             IN  /\ ledger' = [ledger EXCEPT ![id] =
                                        [appointment_id |-> id, patient_id |-> "P0001",
                                         doctor_sheet |-> "Dr Asha Rao",
                                         start_time |-> selected_slot,
                                         end_time |-> PlusMinutes(selected_slot, duration),
                                         duration_minutes |-> duration,
                                         status |-> "scheduled", created_at |-> now,
                                         updated_at |-> NoTime,
                                         calendly_event_uri |-> ""]]
                                 /\ NodeReturns([flow EXCEPT
                                                    !.appointment_object = id,
                                                    !.current_step = "appointment_created"],
                                                "setup_reminders")
    /\ UNCHANGED << mirror, lock, now, bvars, fvars, opres, msnap >>

\* _setup_reminders
SetupReminders ==
    /\ NodeRuns("setup_reminders")
    /\ LET state ==
            IF flow.appointment_object = 0
            THEN [flow EXCEPT !.errors = flow.errors + 1]
            ELSE [flow EXCEPT !.current_step = "reminders_setup"]
       IN  NodeReturns(state, "complete_booking")
    /\ UNCHANGED << ledger, mirror, lock, now, bvars, fvars, opres, msnap >>

\* _complete_booking, whose edge leads to END
CompleteBooking ==
    /\ NodeRuns("complete_booking")
    /\ LET state == [flow EXCEPT
                !.current_step = "completed",
                !.is_complete = TRUE,
                !.messages = IF flow.appointment_object # 0 /\ flow.patient_object # {}
                             THEN flow.messages + 1 ELSE flow.messages]
       IN  NodeReturns(state, "END")
    /\ UNCHANGED << ledger, mirror, lock, now, bvars, fvars, opres, msnap >>

\* graph.invoke raises once the limit is reached before END; the except clause of
\* process_message returns current_step "error"
GraphRecursionError ==
    /\ flow.node \notin {"idle", "END", "error"}
    /\ flow.steps >= RecursionLimit
    /\ flow' = [flow EXCEPT !.node = "error", !.current_step = "error",
                            !.is_complete = FALSE]
    /\ UNCHANGED << ledger, mirror, lock, now, bvars, fvars, opres, msnap >>

InitAt(t) ==
    /\ ledger = [i \in ApptIds |-> NoRow]
    /\ mirror = << >>
    /\ lock = None
    /\ now = t
    /\ calls = 0
    /\ pc = [p \in Procs |-> "idle"]
    /\ args = [p \in Procs |-> NoArgs]
    /\ appt_id = [p \in Procs |-> 0]
    /\ result = [p \in Procs |-> NoResult]
    /\ fpc = "idle"
    /\ fargs = NoArgs
    /\ fbooked = {}
    /\ fresult = << >>
    /\ floop = NoLoop
    /\ opres = NoResult
    /\ msnap = [w \in Writers |-> NoSnap]
    /\ flow = NoFlow

\* before the first window opens
Init == InitAt(180)

\* the clock reads any of NowValues; it does not cross a slot boundary while the
\* calls of one behaviour run
InitAnyTime == \E t \in NowValues : InitAt(t)

NextBook == \E p \in Procs : BookCallActive(p) \/ BookStep(p)

SpecBook == Init /\ [][NextBook]_vars

NextCommit == \E p \in Procs : BookCall(p) \/ BookStep(p)

SpecCommit == Init /\ [][NextCommit]_vars

NextInput == \E p \in Procs : BookCallInput(p) \/ BookStep(p)

SpecInput == Init /\ [][NextInput]_vars

\* the callers of NextInput, each scheduled fairly: a caller that can take a step
\* of book_slot takes one
SpecLive == Init /\ [][NextInput]_vars /\ \A p \in Procs : WF_vars(BookStep(p))

NextLoop ==
    \/ SimulateOutside
    \/ FindReadDbLoop
    \/ FindEnterLoop
    \/ FindIterate

\* the interpreter keeps running a call that is inside its loops
SpecLoop == InitAnyTime /\ [][NextLoop]_vars /\ WF_vars(FindIterate)

NextSchedule == \E p \in Procs : BookCallSchedule(p) \/ BookStep(p)

SpecSchedule == Init /\ [][NextSchedule]_vars

NextFrontend ==
    \/ BookCallSource("p1")
    \/ BookAcquire("p1")
    \/ BookCheckDb("p1")
    \/ BookCheckCal("p1")
    \/ BookInsert("p1")
    \/ BookInsertError("p1")
    \/ BookAppend("p1")
    \/ BookAppendFailed("p1")
    \/ ConfirmBooking("p2")

SpecFrontend == Init /\ [][NextFrontend]_vars

NextFind == SimulateBooking \/ FindReadDbWide \/ FindReadCal

SpecFind == InitAnyTime /\ [][NextFind]_vars

NextSources ==
    \/ BookCallSource("p1")
    \/ BookAcquire("p1")
    \/ BookCheckDb("p1")
    \/ BookCheckCal("p1")
    \/ BookInsert("p1")
    \/ BookInsertError("p1")
    \/ BookAppend("p1")
    \/ BookAppendFailed("p1")
    \/ \E id \in ApptIds : Cancel(id)
    \/ SimulateOutside
    \/ FindReadDbSource
    \/ FindReadCal

SpecSources == Init /\ [][NextSources]_vars

NextOps ==
    \/ BookCallSource("p1")
    \/ BookAcquire("p1")
    \/ BookCheckDb("p1")
    \/ BookCheckCal("p1")
    \/ BookInsert("p1")
    \/ BookInsertError("p1")
    \/ BookAppend("p1")
    \/ BookAppendFailed("p1")
    \/ \E id \in ApptIds : Cancel(id)
    \/ \E id \in ApptIds : RecordPatientResponse(id)
    \/ UpdateAppt

SpecOps == Init /\ [][NextOps]_vars

NextReconcile ==
    \/ BookCallSource("p1")
    \/ BookAcquire("p1")
    \/ BookCheckDb("p1")
    \/ BookCheckCal("p1")
    \/ BookInsert("p1")
    \/ BookInsertError("p1")
    \/ BookAppend("p1")
    \/ BookAppendFailed("p1")
    \/ \E id \in ApptIds : Cancel(id)
    \/ MarkConfirmed
    \/ ReconcileCalendly
    \/ SimulateOutside
    \/ CancelBooking

SpecReconcile == Init /\ [][NextReconcile]_vars

NextAgent ==
    \/ AgentCreate("p1")
    \/ AgentInsert("p1")
    \/ AgentReschedule
    \/ \E id \in ApptIds : Cancel(id)

SpecAgent == InitAnyTime /\ [][NextAgent]_vars

\* two create_appointment calls side by side
NextAgentRace == \E p \in Procs : AgentCreate(p) \/ AgentInsert(p)

SpecAgentRace == Init /\ [][NextAgentRace]_vars

\* the appends to calendar_events.xlsx followed read by read and write by write
NextAppend ==
    \/ BookCallSource("p1")
    \/ BookAcquire("p1")
    \/ BookCheckDb("p1")
    \/ BookCheckCal("p1")
    \/ BookInsert("p1")
    \/ BookAppendRead("p1")
    \/ BookAppendWrite("p1")
    \/ MarkConfirmedRead
    \/ MarkConfirmedWrite

SpecAppend == Init /\ [][NextAppend]_vars

\* one process_message run after another; the invoke loop runs the next node
\* whenever there is one
NextFlow ==
    \/ ProcessMessage
    \/ ParseInput
    \/ CollectMissingInfo
    \/ LookupPatient
    \/ FindSlots
    \/ CreateAppointment
    \/ SetupReminders
    \/ CompleteBooking
    \/ GraphRecursionError

SpecFlow == Init /\ [][NextFlow]_vars /\ WF_vars(NextFlow)

NextZones ==
    \/ \E p \in Procs :
          \/ BookCallZone(p)
          \/ BookAcquire(p)
          \/ BookCheckDb(p)
          \/ BookCheckCal(p)
          \/ BookInsert(p)
          \/ BookAppend(p)
    \/ UpdateApptNaive
    \/ SimulateOutside
    \/ FindReadDbSource
    \/ FindReadCal

SpecZones == Init /\ [][NextZones]_vars

NextResources ==
    \/ \E p \in Procs : BookCallResource(p) \/ BookStep(p)
    \/ SimulateMeera
    \/ FindReadDbResource
    \/ FindReadCal

SpecResources == Init /\ [][NextResources]_vars

Next ==
    \/ BookCallSlot("p1")
    \/ BookAcquire("p1")
    \/ BookCheckDb("p1")
    \/ BookCheckCal("p1")
    \/ BookInsert("p1")
    \/ BookInsertError("p1")
    \/ BookAppend("p1")
    \/ BookAppendFailed("p1")
    \/ \E id \in ApptIds : Cancel(id)
    \/ FindReadDb
    \/ FindReadCal

Spec == InitAnyTime /\ [][Next]_vars

\* =================================================================== claims
\* half-open interval comparison on instants
HalfOpenOverlap(s1, e1, s2, e2) == s1 < e2 /\ e1 > s2

RowsOverlap(a, b) ==
    HalfOpenOverlap(Instant(a.start_time), Instant(a.end_time),
                    Instant(b.start_time), Instant(b.end_time))

Present(i) == ledger[i] # NoRow
Active(i) == Present(i) /\ ledger[i].status \in ActiveStatuses

\* the instants [start, start + duration) a request asks for
ReqStart(a) == a.start_iso.wall - (IF a.start_iso.zone = "utc" THEN 0 ELSE DefaultOff)
ReqEnd(a) == ReqStart(a) + a.duration_minutes

ReqOverlapsRecord(a, r) ==
    r.doctor_sheet = a.doctor_sheet
    /\ HalfOpenOverlap(ReqStart(a), ReqEnd(a), Instant(r.start_time), Instant(r.end_time))

LedgerBlocks(a) == \E i \in ApptIds : Active(i) /\ ReqOverlapsRecord(a, ledger[i])
MirrorBlocks(a) == \E k \in 1..Len(mirror) : ReqOverlapsRecord(a, mirror[k])

Finished(p) == pc[p] = "done" /\ result[p] # NoResult
Succeeded(p) == Finished(p) /\ result[p].kind = "return" /\ result[p].success
IsConflict(r) == r.kind = "return" /\ ~r.success /\ r.message \in {MsgConflictDb, MsgConflictCal}

\* C1: for each resource the intervals of the tentative/confirmed ledger bookings
\* are pairwise non-overlapping (half-open comparison), whatever the interleaving
\* of book_slot calls
C1_NoOverlap ==
    \A i, j \in ApptIds :
        (i # j /\ Active(i) /\ Active(j) /\ ledger[i].doctor_sheet = ledger[j].doctor_sheet)
            => ~RowsOverlap(ledger[i], ledger[j])

\* two active bookings of one doctor, back to back
C1_Witness ==
    \E i, j \in ApptIds :
        /\ i # j /\ Active(i) /\ Active(j)
        /\ ledger[i].doctor_sheet = ledger[j].doctor_sheet
        /\ Instant(ledger[i].end_time) = Instant(ledger[j].start_time)

\* the state after two calls, one per caller, for overlapping intervals of one doctor
RaceOver ==
    /\ calls = 2
    /\ \A p \in Procs : Finished(p)
    /\ args["p1"].doctor_sheet = args["p2"].doctor_sheet
    /\ HalfOpenOverlap(ReqStart(args["p1"]), ReqEnd(args["p1"]),
                       ReqStart(args["p2"]), ReqEnd(args["p2"]))

Winners == { p \in Procs : Succeeded(p) }
RowsHeld == { i \in ApptIds : Present(i) }

RowIsOf(i, p) ==
    /\ Present(i)
    /\ result[p].appointment_id = i
    /\ ledger[i].patient_id = args[p].patient_id
    /\ ledger[i].doctor_sheet = args[p].doctor_sheet
    /\ Instant(ledger[i].start_time) = ReqStart(args[p])

\* C2 as stated: of two racing calls exactly one succeeds, the other returns a
\* conflict, and the ledger holds the winner's row alone
C2_RaceAsStated ==
    RaceOver =>
        \E w \in Procs :
            /\ Succeeded(w)
            /\ \A l \in Procs \ {w} : IsConflict(result[l])
            /\ \E i \in ApptIds : RowsHeld = {i} /\ RowIsOf(i, w)

\* C2 amended: at most one of two racing calls succeeds and the ledger holds one
\* row per success, the winner's; a call that is not the winner returned a conflict,
\* or failed on the lock wait or on the ledger write; when neither call failed on
\* the lock wait or the write, exactly one succeeds and the other returns a conflict
C2_Race ==
    RaceOver =>
        /\ Cardinality(Winners) <= 1
        /\ Cardinality(RowsHeld) = Cardinality(Winners)
        /\ \A w \in Winners : \E i \in ApptIds : RowsHeld = {i} /\ RowIsOf(i, w)
        /\ \A l \in Procs \ Winners :
              IsConflict(result[l]) \/ result[l].kind = "raise"
        /\ (\A p \in Procs : result[p].kind = "return")
              => (Cardinality(Winners) = 1 /\ \A l \in Procs \ Winners : IsConflict(result[l]))

\* both calls were in flight together: the loser waited for the lock, then lost
C2_Witness ==
    /\ RaceOver
    /\ Cardinality(Winners) = 1
    /\ \E l \in Procs : IsConflict(result[l])

Moved(p) == pc'[p] # pc[p]

\* C3: the checks of book_slot decide on the state they read under the lock: the
\* call ends in a conflict exactly when an active ledger booking or a mirror record
\* of the doctor overlaps the interval, and it reports success exactly when neither
\* does and the insert went through
C3_CommitDecision ==
    [][\A p \in Procs :
        /\ (pc[p] = "check_db" /\ Moved(p)) =>
              /\ (pc'[p] = "done") <=> LedgerBlocks(args[p])
              /\ (pc'[p] = "done") => IsConflict(result'[p])
              /\ (pc'[p] # "done") => pc'[p] = "check_cal"
        /\ (pc[p] = "check_cal" /\ Moved(p)) =>
              /\ (pc'[p] = "done") <=> (LedgerBlocks(args[p]) \/ MirrorBlocks(args[p]))
              /\ (pc'[p] = "done") => IsConflict(result'[p])
              /\ (pc'[p] # "done") => pc'[p] = "insert"
        /\ (pc[p] = "insert" /\ pc'[p] = "append") => lock = p
        /\ (pc[p] = "append" /\ Moved(p)) =>
              (pc'[p] = "done" /\ result'[p].kind = "return" /\ result'[p].success)
        /\ (Moved(p) /\ pc'[p] = "done" /\ result'[p].success) => pc[p] = "append"
      ]_vars

\* a call was turned down by a mirror record alone
C3_Witness ==
    \E p \in Procs :
        /\ Finished(p) /\ result[p].message = MsgConflictCal
        /\ ~LedgerBlocks(args[p])

\* C4: a call that finds an overlap returns success=false, leaves the ledger rows
\* and the mirror records as they were and no longer holds the lock
C4_ConflictMutatesNothing ==
    [][\A p \in Procs :
        (Moved(p) /\ pc'[p] = "done" /\ IsConflict(result'[p])) =>
            /\ ledger' = ledger
            /\ mirror' = mirror
            /\ appt_id[p] = 0
            /\ lock = p
            /\ lock' = None
      ]_vars

C4_Witness ==
    \E p \in Procs :
        Finished(p) /\ IsConflict(result[p]) /\ lock = None /\ LedgerBlocks(args[p])

\* ---------------------------------------------------------------- C5 - C7
\* step find_available_slots applies to a schedule row
StepOf(a, row) ==
    IF a.step_minutes = {} \/ a.step_minutes = {0}
    THEN row.slot_duration_default ELSE Given(a.step_minutes)

\* the instants window_start + k*step whose visit ends inside the window, over
\* the rows of the doctor's sheet
GridStarts(a) ==
    LET df == load_doctor_schedule(a.doctor_sheet)
    IN  UNION { { row.date * MinutesPerDay + m - DefaultOff :
                    m \in { x \in row.start_time .. (row.end_time - a.duration_minutes) :
                              (x - row.start_time) % StepOf(a, row) = 0 } }
                : row \in { df[i] : i \in 1..Len(df) } }

\* instants of the starts a find call returned
Starts(res) == { Instant(res[k]) : k \in 1..Len(res) }

\* the find call is at its second read, and its first read saw the ledger as it is
FindSeesNow ==
    /\ fpc = "read_cal" /\ fpc' = "done"
    /\ fbooked = load_existing_intervals_from_db(fargs.doctor_sheet)

\* records of doctor d that share more than an endpoint with [s, e)
Crossing(d, s, e) ==
    { i \in ApptIds : Active(i) /\ ledger[i].doctor_sheet = d
        /\ HalfOpenOverlap(s, e, Instant(ledger[i].start_time), Instant(ledger[i].end_time)) }

CrossingMirror(d, s, e) ==
    { k \in 1..Len(mirror) : mirror[k].doctor_sheet = d
        /\ HalfOpenOverlap(s, e, Instant(mirror[k].start_time), Instant(mirror[k].end_time)) }

\* C5: intervals that only touch at an endpoint do not conflict: book_slot turns
\* no call down unless a record shares more than an endpoint with its interval, and
\* find_available_slots returns every future grid candidate that no record crosses,
\* also one that ends where a booking starts or starts where one ends
C5_BackToBack ==
    [][/\ \A p \in Procs :
            (Moved(p) /\ pc'[p] = "done" /\ IsConflict(result'[p])) =>
                \/ Crossing(args[p].doctor_sheet, ReqStart(args[p]), ReqEnd(args[p])) # {}
                \/ CrossingMirror(args[p].doctor_sheet, ReqStart(args[p]), ReqEnd(args[p])) # {}
       /\ FindSeesNow =>
            \A c \in GridStarts(fargs) :
                ( /\ c + fargs.duration_minutes > now
                  /\ Crossing(fargs.doctor_sheet, c, c + fargs.duration_minutes) = {}
                  /\ CrossingMirror(fargs.doctor_sheet, c, c + fargs.duration_minutes) = {}
                  /\ Len(fresult') < fargs.max_results )
                => c \in Starts(fresult')
      ]_vars

\* [a, b) was booked, then [z, a) before it; the slots listed next start at b
C5_Witness ==
    /\ Active(1) /\ Active(2)
    /\ ledger[1].doctor_sheet = ledger[2].doctor_sheet
    /\ Instant(ledger[2].end_time) = Instant(ledger[1].start_time)
    /\ fpc = "done" /\ fargs.doctor_sheet = ledger[1].doctor_sheet
    /\ Instant(ledger[1].end_time) \in Starts(fresult)

\* the row of p's successful call is in the ledger as the call wrote it
RowAsBooked(p) ==
    /\ Succeeded(p)
    /\ RowIsOf(result[p].appointment_id, p)
    /\ ledger[result[p].appointment_id].status = args[p].status

\* C6 as stated: a find call that reads the state right after a successful
\* book_slot for doctor r and interval I returns no candidate overlapping I
C6_IdempotentExclusion ==
    [][FindSeesNow =>
        \A p \in Procs :
            (RowAsBooked(p) /\ args[p].doctor_sheet = fargs.doctor_sheet) =>
                \A c \in Starts(fresult') :
                    ~HalfOpenOverlap(c, c + fargs.duration_minutes,
                                     ReqStart(args[p]), ReqEnd(args[p]))
      ]_vars

\* the row of p's successful call is in the ledger, cancelled since
RowCancelled(p) ==
    /\ Succeeded(p)
    /\ RowIsOf(result[p].appointment_id, p)
    /\ args[p].status \in ActiveStatuses
    /\ ledger[result[p].appointment_id].status = "cancelled"

\* C7 as stated: after interval I was booked and the booking cancelled, a find call
\* for the same doctor and visit length returns I again when I is on its grid, still
\* in the future, and no other booking has taken it
C7_CancellationFreesCapacity ==
    [][FindSeesNow =>
        \A p \in Procs :
            ( /\ RowCancelled(p)
              /\ args[p].doctor_sheet = fargs.doctor_sheet
              /\ args[p].duration_minutes = fargs.duration_minutes
              /\ ReqStart(args[p]) \in GridStarts(fargs)
              /\ ReqEnd(args[p]) > now
              /\ Crossing(fargs.doctor_sheet, ReqStart(args[p]), ReqEnd(args[p])) = {}
              /\ \A k \in CrossingMirror(fargs.doctor_sheet, ReqStart(args[p]), ReqEnd(args[p])) :
                    mirror[k].appointment_id = result[p].appointment_id
              /\ Len(fresult') < fargs.max_results )
            => ReqStart(args[p]) \in Starts(fresult')
      ]_vars

\* --------------------------------------------------------------- C8 - C10
RowMatches(row, a, id) ==
    /\ row # NoRow
    /\ row.appointment_id = id
    /\ row.patient_id = a.patient_id
    /\ row.doctor_sheet = a.doctor_sheet
    /\ Instant(row.start_time) = ReqStart(a)
    /\ Instant(row.end_time) = ReqStart(a) + a.duration_minutes
    /\ row.duration_minutes = a.duration_minutes
    /\ row.status = a.status

\* C8: when the mirror append fails, book_slot still returns success with the
\* booking identifier, the ledger row is present with the requested status, and
\* nothing is raised to the caller
C8_MirrorFailureIsolation ==
    [][\A p \in Procs :
        (pc[p] = "append" /\ Moved(p) /\ mirror' = mirror) =>
            /\ pc'[p] = "done"
            /\ result'[p].kind = "return"
            /\ result'[p].success
            /\ result'[p].appointment_id = appt_id[p]
            /\ RowMatches(ledger'[appt_id[p]], args[p], appt_id[p])
            /\ lock' = None
      ]_vars

\* a booking reported as made whose mirror record is missing
C8_Witness ==
    \E p \in Procs :
        /\ RowAsBooked(p)
        /\ \A k \in 1..Len(mirror) : mirror[k].appointment_id # result[p].appointment_id

\* C9: a call that returns success with identifier X added the row X, absent
\* before, carrying the request's patient, doctor, start, end = start + duration,
\* duration and status, and added, changed or removed no other row
C9_CommitWritesOneRow ==
    [][/\ (ledger' # ledger) =>
            \E p \in Procs : \E id \in ApptIds :
                /\ pc[p] = "insert" /\ pc'[p] = "append"
                /\ appt_id'[p] = id
                /\ ledger[id] = NoRow
                /\ RowMatches(ledger'[id], args[p], id)
                /\ \A j \in ApptIds \ {id} : ledger'[j] = ledger[j]
       /\ \A p \in Procs :
            (Moved(p) /\ pc'[p] = "append") => ledger[appt_id'[p]] = NoRow
       /\ \A p \in Procs :
            (Moved(p) /\ pc'[p] = "done" /\ result'[p].success) =>
                /\ result'[p].appointment_id = appt_id[p]
                /\ RowMatches(ledger'[appt_id[p]], args[p], appt_id[p])
                /\ ledger' = ledger
      ]_vars

\* a second booking was committed beside an earlier one
C9_Witness ==
    \E p \in Procs :
        /\ RowAsBooked(p)
        /\ result[p].appointment_id = 2
        /\ Present(1)

\* C10: when the ledger write fails after the conflict check passed, the call does
\* not report success, no row of the attempt is in the ledger and no mirror record
\* is appended
C10_NoPartialInsert ==
    [][\A p \in Procs :
        (pc[p] = "insert" /\ pc'[p] = "done") =>
            /\ ~result'[p].success
            /\ ledger' = ledger
            /\ mirror' = mirror
            /\ appt_id'[p] = 0
      ]_vars

\* an identifier collision: the call ended with the integrity error
C10_Witness ==
    \E p \in Procs :
        /\ Finished(p) /\ result[p].message = MsgIntegrity
        /\ ~LedgerBlocks(args[p]) /\ ~MirrorBlocks(args[p])

\* -------------------------------------------------------------- C11 - C13
\* C11 as stated: a call with duration_minutes <= 0 is rejected and writes nothing,
\* so every interval book_slot stored in the ledger or the mirror has start < end
C11_NonPositiveDurationRejected ==
    /\ \A p \in Procs :
          (Finished(p) /\ args[p].duration_minutes <= 0) => ~result[p].success
    /\ \A i \in ApptIds :
          Present(i) => Instant(ledger[i].start_time) < Instant(ledger[i].end_time)
    /\ \A k \in 1..Len(mirror) :
          Instant(mirror[k].start_time) < Instant(mirror[k].end_time)

\* a call that ended in a validation failure
ValidationFailure(r) == r.kind = "raise" /\ r.message \in {"ValueError", "InvalidTimeRange"}

\* C12 as stated: a call that ends in a validation failure ends from its position
\* before the lock, and did not hold the lock
C12_ValidationBeforeLock ==
    [][\A p \in Procs :
        (Moved(p) /\ pc'[p] = "done" /\ ValidationFailure(result'[p])) =>
            (pc[p] = "wait" /\ lock # p)
      ]_vars

\* C13: a call waiting for the lock is never stuck: it acquires the lock or its
\* wait runs out; when the lock is held the wait ends in the Timeout error raised
\* to the caller, with the ledger, the mirror and the holder's lock as they were
C13_BoundedLockWait ==
    /\ [](\A p \in Procs :
            pc[p] = "wait" => ENABLED << BookAcquire(p) \/ BookTimeout(p) >>_vars)
    /\ [][\A p \in Procs :
            (pc[p] = "wait" /\ Moved(p) /\ lock # None) =>
                /\ pc'[p] = "done"
                /\ result'[p] = Raised("Timeout")
                /\ ledger' = ledger
                /\ mirror' = mirror
                /\ lock' = lock
         ]_vars

\* a call gave up waiting while the other caller held the lock
C13_Witness ==
    \E p, q \in Procs :
        /\ Finished(p) /\ result[p] = Raised("Timeout")
        /\ lock = q /\ p # q

\* -------------------------------------------------------------- C14 - C20
\* the rules of the sheet a find call uses: inside the date range, with a window
\* that ends after it starts
RulesInRange(a) ==
    LET df == load_doctor_schedule(a.doctor_sheet)
    IN  { row \in { df[i] : i \in 1..Len(df) } :
            /\ (a.date_from = {} \/ row.date >= Given(a.date_from))
            /\ (a.date_to = {} \/ row.date <= Given(a.date_to))
            /\ row.start_time < row.end_time }

\* instants ws + k*s, k >= 0, with ws + k*s + d <= we
RuleGrid(a, row) ==
    { row.date * MinutesPerDay + m - DefaultOff :
        m \in { x \in row.start_time .. (row.end_time - a.duration_minutes) :
                  (x - row.start_time) % StepOf(a, row) = 0 } }

Grid(a) == UNION { RuleGrid(a, row) : row \in RulesInRange(a) }

\* a find call returns
FindReturns == fpc = "read_cal" /\ fpc' = "done"

\* grid candidates of the call that are not past and that no record crosses
Surviving(a) ==
    { c \in Grid(a) :
        /\ c + a.duration_minutes > now
        /\ Crossing(a.doctor_sheet, c, c + a.duration_minutes) = {}
        /\ CrossingMirror(a.doctor_sheet, c, c + a.duration_minutes) = {} }

\* C14: no candidate a find call returned ends at or before the instant the call
\* was evaluated at
C14_NoPastSlots ==
    [][FindReturns =>
        \A k \in 1..Len(fresult') :
            Instant(fresult'[k]) + fargs.duration_minutes > now
      ]_vars

\* at 09:30 the 09:00 half-hour slot is left out and the 09:30 one is listed
C14_Witness ==
    /\ fpc = "done" /\ now = 240
    /\ fargs.doctor_sheet = "Dr Asha Rao" /\ fargs.duration_minutes = 30
    /\ 210 \notin Starts(fresult)
    /\ 240 \in Starts(fresult)

\* find_available_slots(doctor, date_from=date0, date_to=date0, duration_minutes=60,
\* step_minutes=30) on the sheet whose rule of that day is 09:00-12:00
GranularityExample ==
    [doctor_sheet |-> "Dr Vikram Gupta", date_from |-> {1}, date_to |-> {1},
     duration_minutes |-> 60, step_minutes |-> {30}, max_results |-> 100]

\* C15: with a single rule in range, no record of the doctor, every grid candidate
\* in the future and max_results not reached, a find call returns exactly the
\* starts ws + k*s with ws + k*s + d <= we, s being step_minutes or, when that is
\* not given, the rule's slot_duration_default; for 09:00-12:00, d = 60, s = 30
\* these are 09:00, 09:30, 10:00, 10:30, 11:00
C15_Granularity ==
    [][FindReturns =>
        /\ ( /\ Cardinality(RulesInRange(fargs)) = 1
             /\ Surviving(fargs) = Grid(fargs)
             /\ load_booked_intervals_for_doctor(fargs.doctor_sheet) = {}
             /\ fbooked = {}
             /\ Cardinality(Grid(fargs)) <= fargs.max_results )
           => ( /\ Starts(fresult') = Grid(fargs)
                /\ Len(fresult') = Cardinality(Grid(fargs)) )
        /\ (fargs = GranularityExample /\ mirror = << >>) =>
              fresult' = << Ts(1980, "ist"), Ts(2010, "ist"), Ts(2040, "ist"),
                            Ts(2070, "ist"), Ts(2100, "ist") >>
      ]_vars

C15_Witness ==
    /\ fpc = "done" /\ fargs = GranularityExample
    /\ Len(fresult) = 5
    /\ Instant(fresult[5]) = 2100 - DefaultOff

\* C16 as stated: the starts a find call returned are strictly ascending
C16_StrictlyAscending ==
    \A k \in 1..(Len(fresult) - 1) : Instant(fresult[k]) < Instant(fresult[k + 1])

\* C17 as stated: the result is the first max_results of the sorted surviving
\* candidates: it holds surviving candidates only, none that was left out is
\* earlier than one returned, and nothing is left out unless max_results is reached
C17_TruncationAfterSort ==
    [][FindSeesNow =>
        /\ Starts(fresult') \subseteq Surviving(fargs)
        /\ \A c \in Starts(fresult') : \A x \in Surviving(fargs) \ Starts(fresult') : c < x
        /\ Len(fresult') < fargs.max_results => Starts(fresult') = Surviving(fargs)
      ]_vars

\* an interval of the ledger snapshot a find call holds crosses [s, e)
SnapshotCrossing(s, e) ==
    \E iv \in fbooked :
        HalfOpenOverlap(s, e, Instant(AttachDefaultTz(iv[1])), Instant(AttachDefaultTz(iv[2])))

\* C18: no candidate a find call returns overlaps a tentative/confirmed ledger
\* booking of the doctor it read or a mirror record of the doctor it read, also a
\* mirror record without ledger row; a cancelled ledger booking is no conflict: a
\* future grid candidate crossed by neither source is returned
C18_BothSources ==
    [][FindReturns =>
        /\ \A c \in Starts(fresult') :
              /\ ~SnapshotCrossing(c, c + fargs.duration_minutes)
              /\ CrossingMirror(fargs.doctor_sheet, c, c + fargs.duration_minutes) = {}
        /\ \A c \in Grid(fargs) :
              ( /\ c + fargs.duration_minutes > now
                /\ ~SnapshotCrossing(c, c + fargs.duration_minutes)
                /\ CrossingMirror(fargs.doctor_sheet, c, c + fargs.duration_minutes) = {}
                /\ Len(fresult') < fargs.max_results )
              => c \in Starts(fresult')
      ]_vars

\* the 09:00 booking was cancelled and has no mirror record, 09:30 is booked, 10:00
\* is taken by an outside record: 09:00 is listed, 09:30 and 10:00 are not
C18_Witness ==
    /\ Present(1) /\ ledger[1].status = "cancelled"
    /\ Instant(ledger[1].start_time) = 540 - DefaultOff
    /\ \A k \in 1..Len(mirror) : mirror[k].appointment_id # 1
    /\ Active(2) /\ Instant(ledger[2].start_time) = 570 - DefaultOff
    /\ \E k \in 1..Len(mirror) : mirror[k].appointment_id = 0
    /\ fpc = "done" /\ fargs.duration_minutes = 30
    /\ Starts(fresult) = {540 - DefaultOff, 630 - DefaultOff}

\* C19: a find call changes neither the ledger, nor the mirror, nor the lock, and
\* each of its steps can be taken in every state, whoever holds the lock
C19_LockFree ==
    /\ []( /\ fpc \in {"idle", "done"} => ENABLED << FindReadDb >>_vars
           /\ fpc = "read_cal" => ENABLED << FindReadCal >>_vars )
    /\ [][fpc' # fpc => (ledger' = ledger /\ mirror' = mirror /\ lock' = lock)]_vars

\* a find call read the row of the first book_slot call and returned before that
\* call, still holding the lock, wrote its mirror record
C19_Witness ==
    /\ calls = 1 /\ pc["p1"] = "append" /\ lock = "p1" /\ mirror = << >>
    /\ fpc = "done"
    /\ fargs.doctor_sheet = args["p1"].doctor_sheet
    /\ fargs.duration_minutes = 30
    /\ ReqStart(args["p1"]) \in Grid(fargs)
    /\ ReqEnd(args["p1"]) > now
    /\ ReqStart(args["p1"]) \notin Starts(fresult)
    /\ fresult # << >>

\* grid candidates of the call that are not past and that nothing the call read crosses
SurvivingSeen(a) ==
    { c \in Grid(a) :
        /\ c + a.duration_minutes > now
        /\ ~SnapshotCrossing(c, c + a.duration_minutes)
        /\ CrossingMirror(a.doctor_sheet, c, c + a.duration_minutes) = {} }

\* C20: a find call returns the empty list when the sheet has no rule in range, and
\* when every candidate of its grid is past or overlaps an existing interval
C20_EmptyResult ==
    [][(fpc = "read_cal" /\ fpc' # fpc) =>
        /\ fpc' = "done"
        /\ (RulesInRange(fargs) = {} \/ SurvivingSeen(fargs) = {}) => fresult' = << >>
      ]_vars

\* at 09:30, with the window 09:00-10:00 taken by an outside record: the 09:00 slot
\* is past, the 09:30 slot is taken, the list is empty
C20_Witness ==
    /\ fpc = "done" /\ now = 240
    /\ fargs.doctor_sheet = "Dr Meera Iyer" /\ fargs.duration_minutes = 30
    /\ fargs.date_from = {} /\ fargs.date_to = {}
    /\ \E c \in Grid(fargs) : c + fargs.duration_minutes <= now
    /\ \E c \in Grid(fargs) :
          /\ c + fargs.duration_minutes > now
          /\ CrossingMirror(fargs.doctor_sheet, c, c + fargs.duration_minutes) # {}
    /\ SurvivingSeen(fargs) = {}
    /\ fresult = << >>

\* -------------------------------------------------------------- C21 - C30
\* calendar day of a timestamp, and of the clock, in the default zone
DayOf(dt) == (Instant(dt) + DefaultOff) \div MinutesPerDay
Today == (now + DefaultOff) \div MinutesPerDay

\* C21 as stated: a find call that omits date_from or date_to returns no candidate
\* dated before today or after today + 14 days; a call that gives both returns
\* candidates of the days date_from .. date_to only
C21_DefaultDateRange ==
    [][FindReturns =>
        \A k \in 1..Len(fresult') :
            IF fargs.date_from = {} \/ fargs.date_to = {}
            THEN DayOf(fresult'[k]) \in Today .. (Today + 14)
            ELSE DayOf(fresult'[k]) \in Given(fargs.date_from) .. Given(fargs.date_to)
      ]_vars

\* mirror records crossing [s, e) that are not the record of a cancelled booking
CrossingMirrorLive(d, s, e) ==
    { k \in CrossingMirror(d, s, e) :
        ~( /\ mirror[k].appointment_id \in ApptIds
           /\ Present(mirror[k].appointment_id)
           /\ ledger[mirror[k].appointment_id].status = "cancelled" ) }

\* C22 as stated: a cancelled booking never turns a book_slot call down: a call
\* that returns a conflict overlaps a tentative/confirmed booking of the doctor,
\* or a mirror record other than that of a cancelled booking
C22_CancelledExcludedAtCommit ==
    [][\A p \in Procs :
        (Moved(p) /\ pc'[p] = "done" /\ IsConflict(result'[p])) =>
            \/ Crossing(args[p].doctor_sheet, ReqStart(args[p]), ReqEnd(args[p])) # {}
            \/ CrossingMirrorLive(args[p].doctor_sheet, ReqStart(args[p]), ReqEnd(args[p])) # {}
      ]_vars

\* a step of a cancellation of booking id, through either entry point
CancelStep(id) ==
    /\ opres' # NoResult
    /\ opres'.op = "cancel"
    /\ opres'.id = id
    /\ UNCHANGED bvars
    /\ (opres' # opres \/ ledger' # ledger)

\* C23 as stated: cancelling an existing booking reports success and leaves it
\* cancelled, whether or not it was cancelled before; its interval, doctor and
\* patient, every other booking and the set of rows are unchanged
C23_CancelIdempotent ==
    [][\A id \in ApptIds :
        (CancelStep(id) /\ Present(id)) =>
            /\ opres'.success
            /\ ledger' = [ledger EXCEPT ![id].status = "cancelled", ![id].updated_at = now]
      ]_vars

\* the interval of booking id is rewritten by the step
MoveStep(id) ==
    /\ Present(id)
    /\ ledger'[id] # NoRow
    /\ << ledger'[id].start_time, ledger'[id].end_time >> #
           << ledger[id].start_time, ledger[id].end_time >>

\* C24 as stated: a booking is moved only under the booking lock and only to an
\* interval that overlaps no other tentative/confirmed booking of its doctor
C24_RescheduleValidates ==
    [][\A id \in ApptIds :
        MoveStep(id) =>
            /\ lock # None
            /\ \A j \in ApptIds \ {id} :
                   (Active(j) /\ ledger[j].doctor_sheet = ledger[id].doctor_sheet) =>
                       ~HalfOpenOverlap(Instant(ledger'[id].start_time),
                                        Instant(ledger'[id].end_time),
                                        Instant(ledger[j].start_time),
                                        Instant(ledger[j].end_time))
      ]_vars

\* a step of a reconciliation script reporting booking id as confirmed
ReconcileStep(id) ==
    /\ opres' # NoResult
    /\ opres'.op = "reconcile"
    /\ opres'.id = id
    /\ Len(mirror') = Len(mirror) + 1
    /\ mirror'[Len(mirror')].source \in {"manual", "calendly"}

C27_MirrorAppendOnly ==
    [][/\ Len(mirror') >= Len(mirror)
       /\ \A k \in 1..Len(mirror) : mirror'[k] = mirror[k]
      ]_vars

\* a reschedule of booking id has just reported success for the interval it chose
RescheduleSucceeds(id) ==
    /\ opres' # NoResult
    /\ opres'.op = "reschedule"
    /\ opres'.id = id
    /\ opres'.success
    /\ UNCHANGED bvars
    /\ (opres' # opres \/ ledger' # ledger)

\* C25 as stated: after reschedule reports success for booking b and interval J,
\* the row of b has interval J, start and end both changed, and a new updated_at;
\* no row has been created
C25_RescheduleInPlace ==
    [][\A id \in ApptIds :
        RescheduleSucceeds(id) =>
            /\ ledger'[id].start_time = opres'.start_time
            /\ ledger'[id].end_time = opres'.end_time
            /\ ledger'[id].start_time # ledger[id].start_time
            /\ ledger'[id].end_time # ledger[id].end_time
            /\ ledger'[id].updated_at = now
            /\ \A j \in ApptIds \ {id} : ledger'[j] = ledger[j]
      ]_vars

\* C28 as stated: a row created by book_slot has status tentative or confirmed,
\* whatever status the call asked for
C28_StatusAtCreation ==
    [][\A i \in ApptIds :
        (ledger[i] = NoRow /\ ledger'[i] # NoRow) => ledger'[i].status \in ActiveStatuses
      ]_vars

\* an interval read by a find call, zone-less values taken in the default zone,
\* crosses [s, e)
ReadCrossing(intervals, s, e) ==
    \E iv \in intervals : HalfOpenOverlap(s, e, Instant(iv[1]), Instant(iv[2]))

\* C29: a zone-less timestamp stands for the instant it denotes in the default
\* zone: book_slot decides by the instants of the request and of the records of
\* the doctor, however each is written, so a call for an instant already booked is
\* turned down whether its start carries an offset or not; the row of a
\* successful call holds the requested instant; find_available_slots drops the
\* candidates that a zone-less ledger or mirror value, read in the default zone,
\* crosses, and keeps the future ones that none crosses
C29_NaiveInDefaultZone ==
    [][/\ \A p \in Procs :
            /\ (pc[p] = "check_db" /\ Moved(p)) =>
                   ((pc'[p] = "done" /\ IsConflict(result'[p])) <=> LedgerBlocks(args[p]))
            /\ (pc[p] = "check_cal" /\ Moved(p)) =>
                   ((pc'[p] = "done" /\ IsConflict(result'[p])) <=>
                        (LedgerBlocks(args[p]) \/ MirrorBlocks(args[p])))
            /\ (pc[p] = "insert" /\ pc'[p] = "append") =>
                   /\ Instant(ledger'[appt_id'[p]].start_time) = ReqStart(args[p])
                   /\ Instant(ledger'[appt_id'[p]].end_time) = ReqEnd(args[p])
       /\ FindReturns =>
            LET read == fbooked \cup load_calendar_events(fargs.doctor_sheet)
            IN  /\ \A c \in Starts(fresult') :
                      ~ReadCrossing(read, c, c + fargs.duration_minutes)
                /\ \A c \in Grid(fargs) :
                      ( /\ c + fargs.duration_minutes > now
                        /\ ~ReadCrossing(read, c, c + fargs.duration_minutes)
                        /\ Len(fresult') < fargs.max_results )
                      => c \in Starts(fresult')
      ]_vars

\* 09:00 was booked by a call that gave no zone and the call for 03:30 UTC was
\* turned down; the booking was then moved to a zone-less 09:30-10:00, a zone-less
\* outside record holds 10:00-10:30, and a find call lists 09:00 and 10:30 only
C29_Witness ==
    /\ Succeeded("p1") /\ args["p1"].start_iso = Ts(540, "naive")
    /\ Finished("p2") /\ IsConflict(result["p2"]) /\ args["p2"].start_iso = Ts(210, "utc")
    /\ \E i \in ApptIds : Active(i) /\ ledger[i].start_time.zone = "naive"
    /\ \E k \in 1..Len(mirror) : mirror[k].start_time.zone = "naive"
    /\ fpc = "done" /\ fargs.duration_minutes = 30
    /\ Starts(fresult) = {540 - DefaultOff, 630 - DefaultOff}

\* the ledger rows and the mirror records of the doctors other than d
OthersLedger(d, led) ==
    { i \in ApptIds : led[i] # NoRow /\ led[i].doctor_sheet # d }
OthersMirror(d, mir) ==
    { k \in 1..Len(mir) : mir[k].doctor_sheet # d }

\* C30: doctors are scheduled independently: a book_slot call is turned down only
\* by an overlapping record of its own doctor and goes on to the insert when there
\* is none, whatever is booked with the other doctors; no step of the call creates
\* or changes a row or a mirror record of another doctor; a find call returns the
\* future grid candidates that no record of its own doctor crosses
C30_ResourceIndependence ==
    [][/\ \A p \in Procs :
            LET d == args[p].doctor_sheet
            IN  /\ (pc[p] \in {"check_db", "check_cal"} /\ Moved(p)) =>
                       /\ (pc'[p] = "done" /\ IsConflict(result'[p])) =>
                              \/ Crossing(d, ReqStart(args[p]), ReqEnd(args[p])) # {}
                              \/ CrossingMirror(d, ReqStart(args[p]), ReqEnd(args[p])) # {}
                       /\ ( /\ Crossing(d, ReqStart(args[p]), ReqEnd(args[p])) = {}
                            /\ CrossingMirror(d, ReqStart(args[p]), ReqEnd(args[p])) = {} )
                          => pc'[p] \in {"check_cal", "insert"}
                /\ (pc[p] \notin {"idle", "done"} /\ Moved(p)) =>
                       /\ OthersLedger(d, ledger') = OthersLedger(d, ledger)
                       /\ \A i \in OthersLedger(d, ledger) : ledger'[i] = ledger[i]
                       /\ OthersMirror(d, mirror') = OthersMirror(d, mirror)
                       /\ \A k \in OthersMirror(d, mirror) : mirror'[k] = mirror[k]
       /\ FindSeesNow => Starts(fresult') = Surviving(fargs)
      ]_vars

\* both doctors hold a 09:00 booking made by book_slot, Dr Meera Iyer also an
\* outside record of 09:00-10:00, and a find call for Dr Asha Rao lists 09:30
C30_Witness ==
    /\ Succeeded("p1") /\ Succeeded("p2")
    /\ args["p1"].doctor_sheet # args["p2"].doctor_sheet
    /\ \A p \in Procs : Active(result[p].appointment_id)
    /\ RowsOverlap(ledger[1], ledger[2])
    /\ fpc = "done" /\ fargs.doctor_sheet = "Dr Asha Rao"
    /\ (570 - DefaultOff) \in Starts(fresult)
    /\ Crossing("Dr Meera Iyer", 570 - DefaultOff, 600 - DefaultOff) # {}
    /\ CrossingMirror("Dr Meera Iyer", 570 - DefaultOff, 600 - DefaultOff) # {}

\* -------------------------------------------------------------- C31 - C39
\* positions of book_slot inside the with block
InLock == {"check_db", "check_cal", "insert", "append"}

\* C31: the lock is held by a caller only while it is inside the with block, so
\* every exit of book_slot (return or raise) has released it; at most one caller
\* is between its conflict check and its commit; under fair scheduling a caller
\* waiting for the lock acquires it or times out, and a caller holding it leaves
\* book_slot with the lock released
C31_LockReleased ==
    /\ [](\A p \in Procs : lock = p => pc[p] \in InLock)
    /\ [](Cardinality({ p \in Procs : pc[p] \in InLock }) <= 1)
    /\ \A p \in Procs : (pc[p] = "wait") ~> (pc[p] # "wait")
    /\ \A p \in Procs : (pc[p] \in InLock) ~> (pc[p] = "done" /\ lock # p)

\* one caller left book_slot by an exception and the other, which had to wait for
\* the lock, went on to book
C31_Witness ==
    /\ Finished("p1") /\ result["p1"].kind = "raise" /\ result["p1"].message = "ValueError"
    /\ pc["p2"] = "append" /\ lock = "p2"

\* C32 as stated: whatever the interleaving of book_slot, cancel and the
\* reconciliation scripts, no two tentative/confirmed bookings of one doctor overlap
C32_ReconcileKeepsNoOverlap ==
    \A i \in ApptIds : \A j \in ApptIds \ {i} :
        (Active(i) /\ Active(j) /\ ledger[i].doctor_sheet = ledger[j].doctor_sheet)
            => ~RowsOverlap(ledger[i], ledger[j])

\* a find call followed through its loops returns its list
LoopReturns == fpc = "loop" /\ fpc' = "done" /\ floop' = NoLoop

\* rule row holds the visit [c, c + d): a window that ends after it starts, dated
\* in the requested range, with window_start <= c and c + d <= window_end
WindowHolds(a, row, c) ==
    /\ row.start_time >= 0
    /\ row.end_time > row.start_time
    /\ (a.date_from = {} \/ row.date >= Given(a.date_from))
    /\ (a.date_to = {} \/ row.date <= Given(a.date_to))
    /\ row.date * MinutesPerDay + row.start_time - DefaultOff <= c
    /\ c + a.duration_minutes <= row.date * MinutesPerDay + row.end_time - DefaultOff

\* C33 as stated: every start a find call returns lies, with its visit, inside a
\* valid window of the sheet dated in the requested range, whatever the step
C33_InsideWindow ==
    [][LoopReturns =>
        \A c \in Starts(fresult') :
            LET df == load_doctor_schedule(fargs.doctor_sheet)
            IN  \E i \in 1..Len(df) : WindowHolds(fargs, df[i], c)
      ]_vars

\* C34 as stated: a find call that has entered its loops leaves them
C34_FindTerminates == (fpc = "loop") ~> (fpc = "done")

\* the visit a call asks for lies within a window of the doctor's sheet
InsideSchedule(a) ==
    LET df == load_doctor_schedule(a.doctor_sheet)
    IN  \E i \in 1..Len(df) :
            /\ df[i].end_time > df[i].start_time
            /\ df[i].date * MinutesPerDay + df[i].start_time - DefaultOff <= ReqStart(a)
            /\ ReqEnd(a) <= df[i].date * MinutesPerDay + df[i].end_time - DefaultOff

\* C35 as stated: a book_slot call succeeds only for a visit inside a window of
\* the doctor's sheet, and a call for a visit outside every window writes nothing
C35_InsideSchedule ==
    [][\A p \in Procs :
        /\ (Moved(p) /\ pc'[p] = "done" /\ result'[p].success) => InsideSchedule(args[p])
        /\ (pc[p] \in InLock /\ ~InsideSchedule(args[p])) =>
               (ledger' = ledger /\ mirror' = mirror)
      ]_vars

\* C36 as stated: a tentative/confirmed row enters the ledger only while the
\* booking lock is held, and never on top of a tentative/confirmed booking of the
\* same doctor
C36_EveryWriterChecks ==
    [][\A i \in ApptIds :
        (ledger[i] = NoRow /\ ledger'[i] # NoRow /\ ledger'[i].status \in ActiveStatuses) =>
            /\ lock # None
            /\ \A j \in ApptIds \ {i} :
                   (Active(j) /\ ledger[j].doctor_sheet = ledger'[i].doctor_sheet)
                       => ~RowsOverlap(ledger'[i], ledger[j])
      ]_vars

\* C37 as stated: the appointments table never holds two appointments of one
\* doctor, neither cancelled, whose intervals overlap
C37_AgentNoDoubleBooking ==
    \A i \in ApptIds : \A j \in ApptIds :
        ( /\ i < j
          /\ Present(i) /\ Present(j)
          /\ ledger[i].status # "cancelled" /\ ledger[j].status # "cancelled"
          /\ ledger[i].doctor_sheet = ledger[j].doctor_sheet )
        => ~RowsOverlap(ledger[i], ledger[j])

\* C38 as stated: a write of the mirror keeps every record that was in it
C38_NoLostAppend ==
    [][\A k \in 1..Len(mirror) : \E n \in 1..Len(mirror') : mirror'[n] = mirror[k]]_vars

\* C39: every process_message run reaches END: once the graph is entered at
\* parse_input, the run arrives at END
C39_WorkflowReachesEnd == (flow.node = "parse_input") ~> (flow.node = "END")

====
